---- MODULE Spec2Model ----
(***************************************************************************)
(* The asynchronous renderer-to-display pipeline of the osp360 viewer.     *)
(*                                                                         *)
(* Two threads share one AsyncRenderer object: the render thread runs      *)
(* AsyncRenderer::run / AsyncRendererSg::run, the display (main) thread    *)
(* runs main().  A program counter per thread names the statement the      *)
(* thread is executing; the action of that name completes the statement.   *)
(* Three builds of the viewer are modelled, told apart by `variant`:       *)
(*   "main"  src/main.cpp          scene-graph renderer, SDL, cameras      *)
(*   "part0" src/unnamed/part_000  OSPRay API renderer, GLFW window        *)
(*   "part1" src/unnamed/part_001  OSPRay API renderer, SDL + OpenVR       *)
(***************************************************************************)
EXTENDS Integers, Sequences, FiniteSets, TLC

\* ------------------------------------------------------------------ bounds
\* Number of pixels of the relay buffer that are told apart (the program
\* copies PANORAMIC_WIDTH * PANORAMIC_HEIGHT of them, one after the other).
NPix == 2
\* Render passes (the initial one included) after which the render loop is
\* no longer entered.
MaxFrames == 3
\* Input events the window system delivers during one run.
MaxEvents == 2
\* Input events of the runs in which fair scheduling is followed.
FairEvents == 1
\* Render passes of the runs in which the camera's return to the panorama is
\* followed (the delay of RevertDelay time stamps needs three uploads).
CamFrames == 4
\* Render passes of the runs in which the render loop is followed for two more
\* iterations after the camera's return.
RaceFrames == 6
\* The polling scenario: passes of the render thread, polls of the display loop.
ScenarioPasses == 5
ScenarioPolls == 20
\* Blank-separated tokens of the value of a -path=value argument.
MaxTokens == 3
\* attach2d / detach2d calls made on one GLFramebuffer before it is destroyed.
MaxGlCalls == 3
\* Texture names glGenTextures has handed out.
MaxTextures == 2

\* ------------------------------------------------------- program constants
\* float stepsize = 5.f  (UP) and  -5.f  (DOWN)
StepSize == 5
\* lastRenderTime > (lastUpdateTime+5)
RevertDelay == 5

Variants == {"main", "part0", "part1"}
\* GLuint names of textures (0 names no texture)
Textures == 1..MaxTextures
\* GLenum attachment: GL_COLOR_ATTACHMENT0 and GL_DEPTH_ATTACHMENT
AttachPoints == {"COLOR0", "DEPTH"}
Pixels == 1..NPix
PanoramicCameraInitPos == <<21, 242, -49>>
CameraDir == <<0, 0, 1>>

VARIABLES
  variant,          \* which build runs
  frameCap,         \* render passes after which the render loop is no longer entered
  pollCap,          \* display-loop iterations followed (0: no limit)
  cliOverride,      \* what a -path=value argument sets: "none", "camera_pos", "fb_size"
  mayThrow,         \* whether the external render call can throw
  eventCap,         \* input events the window system delivers during the run
  fbSize,           \* renderer["frameBuffer"]["size"]: pixels of the frame buffer
  lastUploaded,     \* history: frame of the last upload through map_fb() (0: none)
  passFailed,       \* history: a render call has thrown
  starts,           \* history: threads started for the AsyncRenderer object
  uploadedSinceMove,\* history: an upload was time-stamped after the last movement
  polls,            \* display-loop iterations that have read new_pixels (counted under a limit)
  exitCode,         \* how main() ended: "none", "return 0", "return 1", "terminate"
  rpc,              \* render thread: statement being executed
  dpc,              \* display (main) thread: statement being executed
  should_quit,      \* std::atomic<bool> AsyncRenderer::should_quit
  new_pixels,       \* std::atomic<bool> AsyncRenderer::new_pixels
  pixel_lock,       \* std::mutex: "free", or the thread that holds it
  pixels,           \* the relay buffer: pixel -> frame it belongs to (0: zero fill)
  rIdx,             \* memcpy: next pixel the render thread copies
  fb,               \* renderer's frame buffer: the frame it holds
  fbMappers,        \* threads that have the frame buffer mapped
  frameNo,          \* render passes completed so far
  once,             \* static bool once
  lastRTime,        \* AsyncRendererSg::lastRTime
  clock,            \* sg::TimeStamp's global counter
  childrenLastModified, \* sgRenderer->childrenLastModified()
  cameraChild,      \* renderer["camera"]: "panoramic" or "perspective"
  panoPos,          \* panoramicCamera->child("pos")
  perspPos,         \* perspectiveCamera->child("pos")
  events,           \* window system's event queue
  nEvents,          \* events delivered so far
  ev,               \* SDL_Event e
  quit,             \* bool quit / glfwWindowShouldClose
  moved,            \* bool moved
  interactiveCamera,\* bool interactiveCamera
  lastRenderTime,   \* sg::TimeStamp lastRenderTime
  lastUpdateTime,   \* sg::TimeStamp lastUpdateTime
  sawNew,           \* value async_renderer.new_pixels.load() returned
  tex,              \* the GL texture: pixel -> frame it belongs to
  dIdx,             \* glTexImage2D: next pixel the display thread reads
  lastPublished,    \* history: frame of the last completed copy into pixels (0: none)
  outstanding,      \* history: map_fb() calls minus unmap_fb() calls
  rpcAtQuit,        \* history: rpc when should_quit.store(true) ran
  passesAfterQuit,  \* history: render passes started after the store
  pubsAfterQuit,    \* history: copies completed after the store
  revertPending,    \* history: "reverted" after the camera's return, "begun" once the
                    \* next render-loop iteration has begun, else "no"
  nodeType,         \* parseCommandLineSG: declared type of the target node's value
  nodeValue,        \* parseCommandLineSG: the target node's value
  argTokens,        \* parseCommandLineSG: the tokens of the argument's value
  attempt,          \* parseCommandLineSG: the try block being executed (0: not parsing)
  setBy,            \* history: try blocks that have called setValue, in order
  dir,              \* fragment shader: the direction being shaded
  uv,               \* fragment shader: the texture coordinates computed
  eyeIdx,           \* size_t i of the eye loop
  vrCalls,          \* history: the calls of the iteration's presentation, in order
  drawTarget,       \* glDrawArrays: the framebuffer drawn to ("none": no draw)
  nVerts,           \* glDrawArrays: vertices of CUBE_STRIP assembled so far
  glFb,             \* GLFramebuffer: "none", "live" or "destroyed"
  attachments,      \* GLFramebuffer::attachments: the pairs << attachment, texture >>
  glCalls,          \* history: the attach2d / detach2d calls made, in order
  fbDeletes,        \* history: glDeleteFramebuffers calls naming the object's fb
  texDeletes        \* history: texture -> glDeleteTextures calls naming it

vars == << variant, frameCap, pollCap, cliOverride, mayThrow, eventCap, fbSize, lastUploaded,
           passFailed, starts, uploadedSinceMove, polls, exitCode, revertPending,
           nodeType, nodeValue, argTokens, attempt, setBy, dir, uv, rpc, dpc, should_quit, new_pixels, pixel_lock, pixels, rIdx,
           fb, fbMappers, frameNo, once, lastRTime, clock, childrenLastModified,
           cameraChild, panoPos, perspPos, events, nEvents, ev, quit, moved,
           interactiveCamera, lastRenderTime, lastUpdateTime, sawNew, tex, dIdx,
           lastPublished, outstanding, rpcAtQuit, passesAfterQuit, pubsAfterQuit,
           eyeIdx, vrCalls, drawTarget, nVerts, glFb, attachments, glCalls,
           fbDeletes, texDeletes >>

buildVars  == << variant, frameCap, pollCap, cliOverride, mayThrow, eventCap >>
cliVars    == << nodeType, nodeValue, argTokens, attempt, setBy >>
shaderVars == << dir, uv >>
fixedVars  == << buildVars, cliVars, shaderVars >>
histVars   == << lastUploaded, passFailed, starts, uploadedSinceMove >>
vrVars     == << eyeIdx, vrCalls >>
stripVars  == << drawTarget, nVerts >>
glVars     == << glFb, attachments, glCalls, fbDeletes, texDeletes >>
\* the presentation's calls, the draw call and the GL framebuffer objects
sideVars   == << vrVars, stripVars, glVars >>
\* what most steps of the two threads leave alone
restVars   == << fixedVars, sideVars, fbSize, histVars >>
auxVars    == << polls, exitCode, revertPending >>
relayVars  == << should_quit, new_pixels, pixel_lock, pixels, rIdx, lastPublished >>
sceneVars  == << childrenLastModified, cameraChild, panoPos, perspPos >>
renderVars == << rpc, fb, frameNo, once, lastRTime, passesAfterQuit, pubsAfterQuit >>
inputVars  == << events, nEvents >>
cameraVars == << moved, interactiveCamera, lastUpdateTime >>
uploadVars == << sawNew, tex, dIdx, outstanding, lastRenderTime >>

\* ----------------------------------------------------------------- helpers
Frame(f) == [i \in Pixels |-> f]

VecAdd(a, b) == [i \in 1..3 |-> a[i] + b[i]]
VecScale(a, s) == [i \in 1..3 |-> a[i] * s]

\* sg::TimeStamp(): the next value of the global counter
NextStamp(c) == c + 1

\* faulty variant: lock() that returns although another thread holds the mutex
CanLockAlways(l) == TRUE

\* std::mutex::lock() returns only when no thread holds the mutex
CanLock(l) == l = "free"

\* faulty variant: a loop that never reads should_quit (while (true))
LoopCondIgnoresQuit(q) == TRUE

\* while (!should_quit.load())
LoopCond(q) == ~q

\* faulty variant: the display loop maps the buffer whatever the flag says
ShouldUploadAlways(b) == TRUE

\* if (async_renderer.new_pixels.load())
ShouldUpload(b) == b

\* what lies behind the end of the mapped frame buffer: zero bytes, or bytes of
\* no frame
BeyondFb == {-1, 0}

\* the frames a pixel of the frame buffer can show: the frame of the last render
\* call, and the next one while a render call is writing it
FbFrames(frame, rendering) == IF rendering THEN {frame, frame + 1} ELSE {frame}

\* what a read of pixel i of the mapped frame buffer can give
FbRead(i, size, frames) == IF i <= size THEN frames ELSE BeyondFb

\* what a read of PANORAMIC_WIDTH * PANORAMIC_HEIGHT pixels from the mapped
\* frame buffer can give
FbImages(size, frames) ==
  {t \in [Pixels -> frames \cup BeyondFb] : \A i \in Pixels : t[i] \in FbRead(i, size, frames)}

\* the camera position of an argument -camera:pos=x,y,z
ArgCameraPos == << 0, 0, 0 >>

\* SDL_QUIT, or SDL_KEYDOWN with SDLK_ESCAPE (GLFW: close request or GLFW_KEY_ESCAPE)
IsQuitEvent(e) == e = "QUIT"
\* SDL_KEYDOWN with SDLK_UP or SDLK_DOWN
IsMoveEvent(e) == e \in {"UP", "DOWN"}

\* the events told apart: only src/main.cpp handles the movement keys
EventTypes == IF variant = "main" THEN {"QUIT", "UP", "DOWN", "OTHER"}
              ELSE {"QUIT", "OTHER"}

\* -------------------------------------------------------------------- Init
\* the program's objects before main() has run a statement
ProgramInit ==
  /\ rpc = "none"
  /\ fbSize = 0
  /\ lastUploaded = 0
  /\ passFailed = FALSE
  /\ starts = 0
  /\ uploadedSinceMove = FALSE
  /\ polls = 0
  /\ exitCode = "none"
  /\ revertPending = "no"
  /\ should_quit = FALSE
  /\ new_pixels = FALSE
  /\ pixel_lock = "free"
  /\ pixels = Frame(0)
  /\ rIdx = 1
  /\ fb = 0
  /\ fbMappers = {}
  /\ frameNo = 0
  /\ once = FALSE
  /\ lastRTime = 0
  /\ clock = 0
  /\ childrenLastModified = 0
  /\ cameraChild = "panoramic"
  /\ panoPos = PanoramicCameraInitPos
  /\ perspPos = PanoramicCameraInitPos
  /\ events = << >>
  /\ nEvents = 0
  /\ ev = "NONE"
  /\ quit = FALSE
  /\ moved = FALSE
  /\ interactiveCamera = FALSE
  /\ lastRenderTime = 0
  /\ lastUpdateTime = 0
  /\ sawNew = FALSE
  /\ tex = Frame(0)
  /\ dIdx = 1
  /\ lastPublished = 0
  /\ outstanding = 0
  /\ rpcAtQuit = "none"
  /\ passesAfterQuit = 0
  /\ pubsAfterQuit = 0
  /\ eyeIdx = 0
  /\ vrCalls = << >>
  /\ drawTarget = "none"
  /\ nVerts = 0
  /\ glFb = "none"
  /\ attachments = {}
  /\ glCalls = << >>
  /\ fbDeletes = 0
  /\ texDeletes = [t \in Textures |-> 0]

\* no command-line argument is being parsed
NoParse ==
  /\ nodeType = "none"
  /\ nodeValue = << >>
  /\ argTokens = << >>
  /\ attempt = 0
  /\ setBy = << >>

\* no fragment is being shaded
NoShade == dir = << 0, 0, 0 >> /\ uv = << 0, 0 >>

\* any build, from the first statement of main()
Init ==
  /\ variant \in Variants
  /\ frameCap = MaxFrames
  /\ pollCap = 0
  /\ cliOverride = "none"
  /\ mayThrow = FALSE
  /\ eventCap = MaxEvents
  /\ dpc = "args"
  /\ ProgramInit
  /\ NoParse
  /\ NoShade

\* the process dies (std::terminate, or a signal): no thread runs on
ProcessKilled ==
  /\ rpc' = "killed"
  /\ dpc' = "exit"
  /\ exitCode' = "terminate"

\* ------------------------------------------------------------ render thread
\* AsyncRenderer::start / AsyncRendererSg::start, and the constructors of
\* part_000 and part_001:  render_thread = std::thread([&](){ run(); })
StartThread == rpc' = "check" /\ starts' = starts + 1

\* the render call is entered: one more pass after the shutdown store, if stored
EnterRender ==
  passesAfterQuit' = IF should_quit THEN passesAfterQuit + 1 ELSE passesAfterQuit

\* while (!should_quit.load())
RenderLoopCond ==
  /\ rpc = "check"
  /\ IF LoopCond(should_quit)
       THEN /\ frameNo < frameCap
            /\ revertPending' = IF revertPending = "reverted" THEN "begun" ELSE revertPending
            /\ IF variant = "main"
                 THEN rpc' = "modcheck" /\ UNCHANGED passesAfterQuit
                 ELSE rpc' = "render" /\ EnterRender
       ELSE rpc' = "done" /\ UNCHANGED << passesAfterQuit, revertPending >>
  /\ UNCHANGED << restVars, polls, exitCode, dpc, relayVars, fb, fbMappers, frameNo, once, lastRTime,
                  clock, sceneVars, inputVars, ev, quit, cameraVars, uploadVars,
                  rpcAtQuit, pubsAfterQuit >>

\* if (sgRenderer->childrenLastModified() > lastRTime || !once)
RenderModCheck ==
  /\ rpc = "modcheck"
  /\ rpc' = IF childrenLastModified > lastRTime \/ ~once THEN "verify" ELSE "stamp"
  /\ revertPending' = IF revertPending = "begun" THEN "no" ELSE revertPending
  /\ UNCHANGED << restVars, polls, exitCode, dpc, relayVars, fb, fbMappers, frameNo, once, lastRTime,
                  clock, sceneVars, inputVars, ev, quit, cameraVars, uploadVars,
                  rpcAtQuit, passesAfterQuit, pubsAfterQuit >>

\* sgRenderer->traverse("verify")
RenderVerify ==
  /\ rpc = "verify"
  /\ rpc' = "commit"
  /\ UNCHANGED << restVars, auxVars, dpc, relayVars, fb, fbMappers, frameNo, once, lastRTime,
                  clock, sceneVars, inputVars, ev, quit, cameraVars, uploadVars,
                  rpcAtQuit, passesAfterQuit, pubsAfterQuit >>

\* sgRenderer->traverse("commit")
RenderCommit ==
  /\ rpc = "commit"
  /\ rpc' = "stamp"
  /\ UNCHANGED << restVars, auxVars, dpc, relayVars, fb, fbMappers, frameNo, once, lastRTime,
                  clock, sceneVars, inputVars, ev, quit, cameraVars, uploadVars,
                  rpcAtQuit, passesAfterQuit, pubsAfterQuit >>

\* faulty variant: once is never set
RenderStampOnceForgotten ==
  /\ rpc = "stamp"
  /\ clock' = NextStamp(clock)
  /\ lastRTime' = clock'
  /\ rpc' = "render"
  /\ EnterRender
  /\ UNCHANGED << restVars, auxVars, dpc, relayVars, fb, fbMappers, frameNo, once,
                  sceneVars, inputVars, ev, quit, cameraVars, uploadVars,
                  rpcAtQuit, pubsAfterQuit >>

\* once = true; lastRTime = sg::TimeStamp();
RenderStamp ==
  /\ rpc = "stamp"
  /\ once' = TRUE
  /\ clock' = NextStamp(clock)
  /\ lastRTime' = clock'
  /\ rpc' = "render"
  /\ EnterRender
  /\ UNCHANGED << restVars, auxVars, dpc, relayVars, fb, fbMappers, frameNo,
                  sceneVars, inputVars, ev, quit, cameraVars, uploadVars,
                  rpcAtQuit, pubsAfterQuit >>

\* faulty variant: should_quit is read again when the pass returns, and the loop is left
\* without publishing the frame
RenderFrameChecksQuit ==
  /\ rpc = "render"
  /\ frameNo' = frameNo + 1
  /\ fb' = frameNo'
  /\ rpc' = IF should_quit THEN "done" ELSE "map"
  /\ UNCHANGED << restVars, auxVars, dpc, relayVars, fbMappers, once, lastRTime,
                  clock, sceneVars, inputVars, ev, quit, cameraVars, uploadVars,
                  rpcAtQuit, passesAfterQuit, pubsAfterQuit >>

\* faulty variant: a throwing render call is caught and the pass is tried again
RenderFrameRetries ==
  /\ rpc = "render"
  /\ \/ /\ frameNo' = frameNo + 1
        /\ fb' = frameNo'
        /\ rpc' = "map"
        /\ UNCHANGED passFailed
     \/ /\ mayThrow
        /\ passFailed' = TRUE
        /\ rpc' = "render"
        /\ UNCHANGED << frameNo, fb >>
  /\ UNCHANGED << fixedVars, sideVars, fbSize, lastUploaded, starts, uploadedSinceMove, auxVars,
                  dpc, relayVars, fbMappers, once, lastRTime,
                  clock, sceneVars, inputVars, ev, quit, cameraVars, uploadVars,
                  rpcAtQuit, passesAfterQuit, pubsAfterQuit >>

\* ospRenderFrame(fb, renderer, OSP_FB_COLOR) / sgRenderer->traverse("render"):
\* the pass returns with a new frame in the frame buffer, or it throws; nothing
\* in run() or in the thread's function catches, so the exception leaves the thread
RenderFrame ==
  /\ rpc = "render"
  /\ \/ /\ frameNo' = frameNo + 1
        /\ fb' = frameNo'
        /\ rpc' = "map"
        /\ UNCHANGED passFailed
     \/ /\ mayThrow
        /\ passFailed' = TRUE
        /\ rpc' = "terminate"
        /\ UNCHANGED << frameNo, fb >>
  /\ UNCHANGED << fixedVars, sideVars, fbSize, lastUploaded, starts, uploadedSinceMove, auxVars, dpc, relayVars, fbMappers, once, lastRTime,
                  clock, sceneVars, inputVars, ev, quit, cameraVars, uploadVars,
                  rpcAtQuit, passesAfterQuit, pubsAfterQuit >>

\* an exception that leaves the function of a std::thread: std::terminate() is
\* called and the process ends
RenderTerminate ==
  /\ rpc = "terminate"
  /\ ProcessKilled
  /\ UNCHANGED << restVars, polls, revertPending, relayVars, fb, frameNo, once,
                  lastRTime, passesAfterQuit, pubsAfterQuit, fbMappers, clock, sceneVars,
                  inputVars, ev, quit, cameraVars, uploadVars, rpcAtQuit >>

\* data = ospMapFrameBuffer(fb, OSP_FB_COLOR) / sgFBptr->map()
RenderMapFb ==
  /\ rpc = "map"
  /\ fbMappers' = fbMappers \cup {"render"}
  /\ rpc' = "lock"
  /\ UNCHANGED << restVars, auxVars, dpc, relayVars, fb, frameNo, once, lastRTime,
                  clock, sceneVars, inputVars, ev, quit, cameraVars, uploadVars,
                  rpcAtQuit, passesAfterQuit, pubsAfterQuit >>

\* std::lock_guard<std::mutex> lock(pixel_lock)
RenderLock ==
  /\ rpc = "lock"
  /\ CanLock(pixel_lock)
  /\ pixel_lock' = "render"
  /\ rIdx' = 1
  /\ rpc' = "copy"
  /\ UNCHANGED << restVars, auxVars, dpc, should_quit, new_pixels, pixels, lastPublished,
                  fb, fbMappers, frameNo, once, lastRTime,
                  clock, sceneVars, inputVars, ev, quit, cameraVars, uploadVars,
                  rpcAtQuit, passesAfterQuit, pubsAfterQuit >>

\* faulty variant: the copy ends after the first pixel (a memcpy of too few bytes)
RenderCopyPartial ==
  /\ rpc = "copy"
  /\ pixels' = [pixels EXCEPT ![rIdx] = fb]
  /\ rpc' = "flag" /\ rIdx' = 1 /\ lastPublished' = fb
  /\ UNCHANGED << restVars, auxVars, dpc, should_quit, new_pixels, pixel_lock,
                  fb, fbMappers, frameNo, once, lastRTime,
                  clock, sceneVars, inputVars, ev, quit, cameraVars, uploadVars,
                  rpcAtQuit, passesAfterQuit, pubsAfterQuit >>

\* std::memcpy(pixels.data(), data, sizeof(uint32_t) * PANORAMIC_WIDTH * PANORAMIC_HEIGHT)
\* one pixel per step; a read behind the end of the frame buffer gives whatever
\* lies there, or the process is killed
RenderCopy ==
  /\ rpc = "copy"
  /\ \/ /\ \E x \in FbRead(rIdx, fbSize, FbFrames(fb, FALSE)) : pixels' = [pixels EXCEPT ![rIdx] = x]
        /\ IF rIdx = NPix
             THEN rpc' = "flag" /\ rIdx' = 1 /\ lastPublished' = fb
             ELSE rpc' = "copy" /\ rIdx' = rIdx + 1 /\ UNCHANGED lastPublished
        /\ UNCHANGED << dpc, exitCode >>
     \/ /\ rIdx > fbSize
        /\ ProcessKilled
        /\ UNCHANGED << pixels, rIdx, lastPublished >>
  /\ UNCHANGED << restVars, polls, revertPending, should_quit, new_pixels, pixel_lock,
                  fb, fbMappers, frameNo, once, lastRTime,
                  clock, sceneVars, inputVars, ev, quit, cameraVars, uploadVars,
                  rpcAtQuit, passesAfterQuit, pubsAfterQuit >>

\* faulty variant: the store to new_pixels is forgotten
RenderSetFlagForgotten ==
  /\ rpc = "flag"
  /\ pubsAfterQuit' = IF should_quit THEN pubsAfterQuit + 1 ELSE pubsAfterQuit
  /\ rpc' = "unmap"
  /\ UNCHANGED << restVars, auxVars, dpc, relayVars,
                  fb, fbMappers, frameNo, once, lastRTime,
                  clock, sceneVars, inputVars, ev, quit, cameraVars, uploadVars,
                  rpcAtQuit, passesAfterQuit >>

\* new_pixels.store(true)
RenderSetFlag ==
  /\ rpc = "flag"
  /\ new_pixels' = TRUE
  /\ pubsAfterQuit' = IF should_quit THEN pubsAfterQuit + 1 ELSE pubsAfterQuit
  /\ rpc' = "unmap"
  /\ UNCHANGED << restVars, auxVars, dpc, should_quit, pixel_lock, pixels, rIdx, lastPublished,
                  fb, fbMappers, frameNo, once, lastRTime,
                  clock, sceneVars, inputVars, ev, quit, cameraVars, uploadVars,
                  rpcAtQuit, passesAfterQuit >>

\* faulty variant: the frame buffer stays mapped at the end of the iteration
RenderUnmapFbMissing ==
  /\ rpc = "unmap"
  /\ rpc' = "unlock"
  /\ UNCHANGED << restVars, auxVars, dpc, relayVars, fb, fbMappers, frameNo, once,
                  lastRTime, clock, sceneVars, inputVars, ev, quit, cameraVars,
                  uploadVars, rpcAtQuit, passesAfterQuit, pubsAfterQuit >>

\* ospUnmapFrameBuffer(data, fb) / sgFBptr->unmap(data)
RenderUnmapFb ==
  /\ rpc = "unmap"
  /\ fbMappers' = fbMappers \ {"render"}
  /\ rpc' = "unlock"
  /\ UNCHANGED << restVars, auxVars, dpc, relayVars, fb, frameNo, once, lastRTime,
                  clock, sceneVars, inputVars, ev, quit, cameraVars, uploadVars,
                  rpcAtQuit, passesAfterQuit, pubsAfterQuit >>

\* faulty variant: the mutex is locked without a scoped guard and stays locked
RenderUnlockMissing ==
  /\ rpc = "unlock"
  /\ rpc' = "check"
  /\ UNCHANGED << restVars, auxVars, dpc, relayVars,
                  fb, fbMappers, frameNo, once, lastRTime,
                  clock, sceneVars, inputVars, ev, quit, cameraVars, uploadVars,
                  rpcAtQuit, passesAfterQuit, pubsAfterQuit >>

\* end of the loop body: ~lock_guard() unlocks pixel_lock
RenderUnlock ==
  /\ rpc = "unlock"
  /\ pixel_lock' = "free"
  /\ rpc' = "check"
  /\ UNCHANGED << restVars, auxVars, dpc, should_quit, new_pixels, pixels, rIdx, lastPublished,
                  fb, fbMappers, frameNo, once, lastRTime,
                  clock, sceneVars, inputVars, ev, quit, cameraVars, uploadVars,
                  rpcAtQuit, passesAfterQuit, pubsAfterQuit >>

RenderNext ==
  \/ RenderLoopCond
  \/ RenderModCheck
  \/ RenderVerify
  \/ RenderCommit
  \/ RenderStamp
  \/ RenderFrame
  \/ RenderMapFb
  \/ RenderLock
  \/ RenderCopy
  \/ RenderSetFlag
  \/ RenderUnmapFb
  \/ RenderUnlock

\* ----------------------------------------------------------- display thread
\* how main() ends when a start-up step fails: "return 1", except that
\* if (gl3wInit()) throws std::runtime_error, which nothing catches
FailureExit(step) == IF step = "gl3w" THEN "terminate" ELSE "return 1"

\* a start-up step of main(): it succeeds and main() goes on, or it fails and
\* main() ends
StartupStep(here, next) ==
  /\ dpc = here
  /\ \E ok \in BOOLEAN :
       IF ok THEN dpc' = next /\ UNCHANGED exitCode
             ELSE dpc' = "exit" /\ exitCode' = FailureExit(here)
  /\ UNCHANGED << restVars, polls, revertPending, relayVars, renderVars, fbMappers,
                  clock, sceneVars, inputVars, ev, quit, cameraVars, uploadVars,
                  rpcAtQuit >>

\* if (argc < 2) { ...; return 1; }
MainArgs == StartupStep("args", "display_init")

\* if (SDL_Init(SDL_INIT_EVERYTHING) != 0) { ...; return 1; }
\* if (!glfwInit()) { return 1; }
DisplayInit == StartupStep("display_init", "window")

\* SDL_CreateWindow / glfwCreateWindow;  if (!window) { ...; return 1; }
CreateWindow == StartupStep("window", "gl3w")

\* if (gl3wInit()) { throw std::runtime_error("Failed to init gl3w"); }
Gl3wInit == StartupStep("gl3w", IF variant = "main" THEN "framebuffer" ELSE "load_model")

\* bool ret = tinyobj::LoadObj(...);  if (!ret) { ...; return 1; }
LoadModel == StartupStep("load_model", IF variant = "main" THEN "init_map" ELSE "framebuffer")

\* renderer["frameBuffer"]["size"].setValue(vec2i(PANORAMIC_WIDTH, PANORAMIC_HEIGHT));
\* parseCommandLineSG(argc, argv, renderer): an argument -frameBuffer:size=w,h sets
\* another size, an argument -camera:pos=x,y,z sets the position of the renderer's
\* camera child, which is the panoramic camera
\* part_000, part_001: ospNewFrameBuffer(osp::vec2i{PANORAMIC_WIDTH, PANORAMIC_HEIGHT}, ...)
CreateFrameBuffer ==
  /\ dpc = "framebuffer"
  /\ fbSize' = IF variant = "main" /\ cliOverride = "fb_size" THEN NPix - 1 ELSE NPix
  /\ panoPos' = IF variant = "main" /\ cliOverride = "camera_pos" THEN ArgCameraPos
                ELSE panoPos
  /\ dpc' = "init_render"
  /\ UNCHANGED << fixedVars, sideVars, histVars, auxVars, relayVars, renderVars, fbMappers, clock,
                  childrenLastModified, cameraChild, perspPos, inputVars, ev, quit,
                  cameraVars, uploadVars, rpcAtQuit >>

\* renderer.traverse("verify"/"commit"/"render") / ospRenderFrame: the initial
\* frame, rendered by the main thread
DisplayInitRender ==
  /\ dpc = "init_render"
  /\ frameNo' = frameNo + 1
  /\ fb' = frameNo'
  /\ dpc' = IF variant = "main" THEN "load_model"
            ELSE IF variant = "part1" THEN "construct" ELSE "init_map"
  /\ UNCHANGED << restVars, auxVars, rpc, relayVars, fbMappers, once, lastRTime, clock,
                  sceneVars, inputVars, ev, quit, cameraVars, uploadVars,
                  rpcAtQuit, passesAfterQuit, pubsAfterQuit >>

\* data = sgFBptr->map() / ospMapFrameBuffer(framebuffer, OSP_FB_COLOR)
DisplayInitMap ==
  /\ dpc = "init_map"
  /\ fbMappers' = fbMappers \cup {"main"}
  /\ dpc' = "init_upload"
  /\ UNCHANGED << restVars, auxVars, relayVars, renderVars, clock, sceneVars, inputVars, ev,
                  quit, cameraVars, uploadVars, rpcAtQuit >>

\* glTexImage2D(..., data): the initial frame goes to the texture; part_001 reads
\* the frame buffer while the render thread may be writing it
DisplayInitUpload ==
  /\ dpc = "init_upload"
  /\ \/ /\ tex' \in FbImages(fbSize, FbFrames(fb, rpc = "render"))
        /\ dpc' = "init_unmap"
        /\ UNCHANGED << rpc, exitCode >>
     \/ /\ fbSize < NPix
        /\ ProcessKilled
        /\ UNCHANGED tex
  /\ UNCHANGED << restVars, polls, revertPending, relayVars, fb, frameNo, once,
                  lastRTime, passesAfterQuit, pubsAfterQuit, fbMappers, clock, sceneVars,
                  inputVars, ev, quit, cameraVars, sawNew, dIdx, outstanding,
                  lastRenderTime, rpcAtQuit >>

\* sgFBptr->unmap(data) / ospUnmapFrameBuffer(data, framebuffer)
DisplayInitUnmap ==
  /\ dpc = "init_unmap"
  /\ fbMappers' = fbMappers \ {"main"}
  /\ dpc' = IF variant = "part1" THEN "loop" ELSE "construct"
  /\ UNCHANGED << restVars, auxVars, relayVars, renderVars, clock, sceneVars, inputVars, ev,
                  quit, cameraVars, uploadVars, rpcAtQuit >>

\* faulty variant: the constructor sets new_pixels
DisplayConstructFlagSet ==
  /\ dpc = "construct"
  /\ should_quit' = FALSE
  /\ new_pixels' = TRUE
  /\ pixels' = Frame(0)
  /\ IF variant = "main"
       THEN /\ clock' = NextStamp(clock)
            /\ lastRTime' = clock'
            /\ dpc' = "start"
            /\ UNCHANGED << rpc, starts >>
       ELSE /\ StartThread
            /\ dpc' = IF variant = "part1" THEN "init_map" ELSE "loop"
            /\ UNCHANGED << clock, lastRTime >>
  /\ UNCHANGED << fixedVars, sideVars, fbSize, lastUploaded, passFailed, uploadedSinceMove,
                  auxVars, pixel_lock, rIdx, lastPublished, fb, fbMappers, frameNo,
                  once, sceneVars, inputVars, ev, quit, cameraVars, uploadVars,
                  rpcAtQuit, passesAfterQuit, pubsAfterQuit >>

\* AsyncRendererSg async_renderer(renderer_ptr) / AsyncRenderer async_renderer(...):
\* should_quit(false), new_pixels(false), pixels(..., 0); the member lastRTime
\* takes a time stamp; part_000 and part_001 start the thread in the constructor
DisplayConstruct ==
  /\ dpc = "construct"
  /\ should_quit' = FALSE
  /\ new_pixels' = FALSE
  /\ pixels' = Frame(0)
  /\ IF variant = "main"
       THEN /\ clock' = NextStamp(clock)
            /\ lastRTime' = clock'
            /\ dpc' = "start"
            /\ UNCHANGED << rpc, starts >>
       ELSE /\ StartThread
            /\ dpc' = IF variant = "part1" THEN "init_map" ELSE "loop"
            /\ UNCHANGED << clock, lastRTime >>
  /\ UNCHANGED << fixedVars, sideVars, fbSize, lastUploaded, passFailed, uploadedSinceMove,
                  auxVars, pixel_lock, rIdx, lastPublished, fb, fbMappers, frameNo,
                  once, sceneVars, inputVars, ev, quit, cameraVars, uploadVars,
                  rpcAtQuit, passesAfterQuit, pubsAfterQuit >>

\* faulty variant: start() is not called
DisplayStartSkipped ==
  /\ dpc = "start"
  /\ dpc' = "locals"
  /\ UNCHANGED << restVars, auxVars, relayVars, renderVars, fbMappers, clock,
                  sceneVars, inputVars, ev, quit, cameraVars, uploadVars,
                  rpcAtQuit >>

\* async_renderer.start()
DisplayStart ==
  /\ dpc = "start"
  /\ StartThread
  /\ dpc' = "locals"
  /\ UNCHANGED << fixedVars, sideVars, fbSize, lastUploaded, passFailed, uploadedSinceMove,
                  auxVars, relayVars, fb, fbMappers, frameNo, once, lastRTime, clock,
                  sceneVars, inputVars, ev, quit, cameraVars, uploadVars,
                  rpcAtQuit, passesAfterQuit, pubsAfterQuit >>

\* bool quit = false; bool interactiveCamera = false;
\* sg::TimeStamp lastRenderTime; sg::TimeStamp lastUpdateTime;
DisplayLocals ==
  /\ dpc = "locals"
  /\ quit' = FALSE
  /\ interactiveCamera' = FALSE
  /\ lastRenderTime' = NextStamp(clock)
  /\ lastUpdateTime' = NextStamp(lastRenderTime')
  /\ clock' = lastUpdateTime'
  /\ dpc' = "loop"
  /\ UNCHANGED << restVars, auxVars, relayVars, renderVars, fbMappers, sceneVars, inputVars,
                  ev, moved, sawNew, tex, dIdx, outstanding, rpcAtQuit >>

\* the window system queues an input event.  Only the polling statement reads the
\* queue, so an event that arrives earlier in the iteration is the same to the
\* program as one that arrives when polling begins; events that arrive after the
\* quit request was handled are never polled and are left out.
PostEvent ==
  /\ dpc = "poll"
  /\ ~quit
  /\ nEvents < eventCap
  /\ \E e \in EventTypes : events' = Append(events, e)
  /\ nEvents' = nEvents + 1
  /\ UNCHANGED << restVars, auxVars, dpc, relayVars, renderVars, fbMappers, clock, sceneVars,
                  ev, quit, cameraVars, uploadVars, rpcAtQuit >>

\* while (!quit) { SDL_Event e; bool moved = false;
\* while (!glfwWindowShouldClose(window)) {
\* the iteration's locals and temporaries start afresh
DisplayLoopCond ==
  /\ dpc = "loop"
  /\ IF quit
       THEN dpc' = "cleanup" /\ UNCHANGED << moved, ev, sawNew >>
       ELSE /\ pollCap = 0 \/ polls < pollCap
            /\ moved' = FALSE
            /\ ev' = "NONE"
            /\ sawNew' = FALSE
            /\ dpc' = IF variant = "part0" THEN "load" ELSE "poll"
  /\ UNCHANGED << restVars, auxVars, relayVars, renderVars, fbMappers, clock, sceneVars,
                  inputVars, quit, interactiveCamera, lastUpdateTime, tex, dIdx,
                  outstanding, lastRenderTime, rpcAtQuit >>

\* where the thread goes when event polling ends
AfterPoll == IF variant = "main" THEN "revert"
             ELSE IF variant = "part1" THEN "load" ELSE "loop"

\* while (SDL_PollEvent(&e)) { quit: quit = true; break;  UP/DOWN: handled (and break) }
\* glfwPollEvents(): key_callback for every queued event
DisplayPoll ==
  /\ dpc = "poll"
  /\ IF events = << >>
       THEN dpc' = AfterPoll /\ UNCHANGED << events, ev, quit >>
       ELSE /\ ev' = Head(events)
            /\ events' = Tail(events)
            /\ IF IsQuitEvent(ev')
                 THEN /\ quit' = TRUE
                      /\ dpc' = IF variant = "part0" THEN "poll" ELSE AfterPoll
                 ELSE /\ UNCHANGED quit
                      /\ dpc' = IF variant = "main" /\ IsMoveEvent(ev') THEN "key" ELSE "poll"
  /\ UNCHANGED << restVars, auxVars, relayVars, renderVars, fbMappers, clock, sceneVars,
                  nEvents, cameraVars, uploadVars, rpcAtQuit >>

\* faulty variant: the key branch moves the cameras but leaves the renderer's camera
\* child as it is
DisplayKeyKeepsCamera ==
  /\ dpc = "key"
  /\ LET stepsize == IF ev = "UP" THEN StepSize ELSE -StepSize
         eye == VecAdd(perspPos, VecScale(CameraDir, stepsize))
         t1 == NextStamp(clock)
         t2 == NextStamp(t1)
         t3 == NextStamp(t2)
     IN /\ perspPos' = eye
        /\ panoPos' = eye
        /\ childrenLastModified' = t2
        /\ lastUpdateTime' = t3
        /\ clock' = t3
  /\ moved' = TRUE
  /\ interactiveCamera' = TRUE
  /\ uploadedSinceMove' = FALSE
  /\ dpc' = "revert"
  /\ UNCHANGED << fixedVars, sideVars, fbSize, lastUploaded, passFailed, starts, auxVars, relayVars, renderVars, fbMappers, inputVars, ev,
                  quit, cameraChild, uploadVars, rpcAtQuit >>

\* faulty variant: the key branch does not record lastUpdateTime
DisplayKeyStampForgotten ==
  /\ dpc = "key"
  /\ LET stepsize == IF ev = "UP" THEN StepSize ELSE -StepSize
         eye == VecAdd(perspPos, VecScale(CameraDir, stepsize))
         t1 == NextStamp(clock)
         t2 == NextStamp(t1)
         t3 == NextStamp(t2)
     IN /\ cameraChild' = "perspective"
        /\ perspPos' = eye
        /\ panoPos' = eye
        /\ childrenLastModified' = t2
        /\ lastUpdateTime' = lastUpdateTime
        /\ clock' = t3
  /\ moved' = TRUE
  /\ interactiveCamera' = TRUE
  /\ uploadedSinceMove' = FALSE
  /\ dpc' = "revert"
  /\ UNCHANGED << fixedVars, sideVars, fbSize, lastUploaded, passFailed, starts, auxVars, relayVars, renderVars, fbMappers, inputVars, ev, quit,
                  uploadVars, rpcAtQuit >>

\* faulty variant: the key branch has no break, polling goes on
DisplayKeyNoBreak ==
  /\ dpc = "key"
  /\ LET stepsize == IF ev = "UP" THEN StepSize ELSE -StepSize
         eye == VecAdd(perspPos, VecScale(CameraDir, stepsize))
         t1 == NextStamp(clock)
         t2 == NextStamp(t1)
         t3 == NextStamp(t2)
     IN /\ cameraChild' = "perspective"
        /\ perspPos' = eye
        /\ panoPos' = eye
        /\ childrenLastModified' = t2
        /\ lastUpdateTime' = t3
        /\ clock' = t3
  /\ moved' = TRUE
  /\ interactiveCamera' = TRUE
  /\ uploadedSinceMove' = FALSE
  /\ dpc' = "poll"
  /\ UNCHANGED << fixedVars, sideVars, fbSize, lastUploaded, passFailed, starts, auxVars, relayVars, renderVars, fbMappers, inputVars, ev, quit,
                  uploadVars, rpcAtQuit >>

\* the SDLK_UP / SDLK_DOWN branch:
\*   renderer.setChild("camera", perspectiveCamera);
\*   eye = pos + dir*stepsize; renderer["camera"]["pos"].setValue(eye);
\*   panoramicCamera->child("pos").setValue(eye);
\*   moved = true; interactiveCamera = true; lastUpdateTime = sg::TimeStamp(); break;
\* each setValue marks its node modified with a fresh time stamp, which reaches
\* the renderer's childrenLastModified
DisplayKey ==
  /\ dpc = "key"
  /\ LET stepsize == IF ev = "UP" THEN StepSize ELSE -StepSize
         eye == VecAdd(perspPos, VecScale(CameraDir, stepsize))
         t1 == NextStamp(clock)
         t2 == NextStamp(t1)
         t3 == NextStamp(t2)
     IN /\ cameraChild' = "perspective"
        /\ perspPos' = eye
        /\ panoPos' = eye
        /\ childrenLastModified' = t2
        /\ lastUpdateTime' = t3
        /\ clock' = t3
  /\ moved' = TRUE
  /\ interactiveCamera' = TRUE
  /\ uploadedSinceMove' = FALSE
  /\ dpc' = "revert"
  /\ UNCHANGED << fixedVars, sideVars, fbSize, lastUploaded, passFailed, starts, auxVars, relayVars, renderVars, fbMappers, inputVars, ev, quit,
                  uploadVars, rpcAtQuit >>

\* the camera's return to the panorama:
\*   renderer.setChild("camera", panoramicCamera); panoramicCamera->markAsModified();
\*   panoramicCamera->setChildrenModified(sg::TimeStamp()); interactiveCamera = false;
RevertCamera ==
  /\ cameraChild' = "panoramic"
  /\ clock' = NextStamp(NextStamp(clock))
  /\ childrenLastModified' = clock'
  /\ interactiveCamera' = FALSE
  /\ revertPending' = "reverted"

\* faulty variant: the camera returns in the first iteration without a movement
DisplayRevertNoDelay ==
  /\ dpc = "revert"
  /\ IF ~moved /\ interactiveCamera
       THEN RevertCamera
       ELSE UNCHANGED << cameraChild, clock, childrenLastModified, interactiveCamera,
                         revertPending >>
  /\ dpc' = "load"
  /\ UNCHANGED << restVars, polls, exitCode, relayVars, renderVars, fbMappers, panoPos,
                  perspPos, inputVars, ev, quit, moved, lastUpdateTime, uploadVars,
                  rpcAtQuit >>

\* faulty variant: the test of interactiveCamera is missing
DisplayRevertAnyMode ==
  /\ dpc = "revert"
  /\ IF ~moved /\ lastRenderTime > lastUpdateTime + RevertDelay
       THEN RevertCamera
       ELSE UNCHANGED << cameraChild, clock, childrenLastModified, interactiveCamera,
                         revertPending >>
  /\ dpc' = "load"
  /\ UNCHANGED << restVars, polls, exitCode, relayVars, renderVars, fbMappers, panoPos,
                  perspPos, inputVars, ev, quit, moved, lastUpdateTime, uploadVars,
                  rpcAtQuit >>

\* if (!moved && interactiveCamera && lastRenderTime > (lastUpdateTime+5)) {
\*   renderer.setChild("camera", panoramicCamera); panoramicCamera->markAsModified();
\*   panoramicCamera->setChildrenModified(sg::TimeStamp()); interactiveCamera = false; }
DisplayRevert ==
  /\ dpc = "revert"
  /\ IF ~moved /\ interactiveCamera /\ lastRenderTime > lastUpdateTime + RevertDelay
       THEN RevertCamera
       ELSE UNCHANGED << cameraChild, clock, childrenLastModified, interactiveCamera,
                         revertPending >>
  /\ dpc' = "load"
  /\ UNCHANGED << restVars, polls, exitCode, relayVars, renderVars, fbMappers, panoPos, perspPos,
                  inputVars, ev, quit, moved, lastUpdateTime, uploadVars, rpcAtQuit >>

\* if (async_renderer.new_pixels.load()) {
DisplayLoad ==
  /\ dpc = "load"
  /\ sawNew' = new_pixels
  /\ polls' = IF pollCap = 0 THEN polls ELSE polls + 1
  /\ dpc' = IF ShouldUpload(sawNew') THEN "map_lock" ELSE "present"
  /\ UNCHANGED << restVars, exitCode, revertPending, relayVars, renderVars, fbMappers, clock, sceneVars,
                  inputVars, ev, quit, cameraVars, tex, dIdx, outstanding,
                  lastRenderTime, rpcAtQuit >>

\* faulty variant: map_fb() does not wait for the mutex (a try_lock whose result is dropped)
MapFbLockNoWait ==
  /\ dpc = "map_lock"
  /\ pixel_lock' = IF pixel_lock = "free" THEN "display" ELSE pixel_lock
  /\ dpc' = "map_store"
  /\ UNCHANGED << restVars, auxVars, should_quit, new_pixels, pixels, rIdx, lastPublished,
                  renderVars, fbMappers, clock, sceneVars, inputVars, ev, quit,
                  cameraVars, uploadVars, rpcAtQuit >>

\* AsyncRenderer::map_fb():  pixel_lock.lock();
MapFbLock ==
  /\ dpc = "map_lock"
  /\ CanLock(pixel_lock)
  /\ pixel_lock' = "display"
  /\ dpc' = "map_store"
  /\ UNCHANGED << restVars, auxVars, should_quit, new_pixels, pixels, rIdx, lastPublished,
                  renderVars, fbMappers, clock, sceneVars, inputVars, ev, quit,
                  cameraVars, uploadVars, rpcAtQuit >>

\* faulty variant: map_fb() leaves new_pixels as it is
MapFbStoreMissing ==
  /\ dpc = "map_store"
  /\ outstanding' = outstanding + 1
  /\ dIdx' = 1
  /\ dpc' = "upload"
  /\ UNCHANGED << restVars, auxVars, relayVars,
                  renderVars, fbMappers, clock, sceneVars, inputVars, ev, quit,
                  cameraVars, sawNew, tex, lastRenderTime, rpcAtQuit >>

\* AsyncRenderer::map_fb():  new_pixels.store(false); return pixels.data();
MapFbStore ==
  /\ dpc = "map_store"
  /\ new_pixels' = FALSE
  /\ outstanding' = outstanding + 1
  /\ dIdx' = 1
  /\ dpc' = "upload"
  /\ UNCHANGED << restVars, auxVars, should_quit, pixel_lock, pixels, rIdx, lastPublished,
                  renderVars, fbMappers, clock, sceneVars, inputVars, ev, quit,
                  cameraVars, sawNew, tex, lastRenderTime, rpcAtQuit >>

\* glTexImage2D(GL_TEXTURE_2D, ..., async_renderer.map_fb()): the texture is filled
\* from the relay buffer, one pixel per step
DisplayUpload ==
  /\ dpc = "upload"
  /\ tex' = [tex EXCEPT ![dIdx] = pixels[dIdx]]
  /\ IF dIdx = NPix
       THEN /\ dpc' = "unmap_fb" /\ dIdx' = 1
            /\ lastUploaded' = tex'[NPix]
            /\ uploadedSinceMove' = TRUE
       ELSE /\ dpc' = "upload" /\ dIdx' = dIdx + 1
            /\ UNCHANGED << lastUploaded, uploadedSinceMove >>
  /\ UNCHANGED << fixedVars, sideVars, fbSize, passFailed, starts, auxVars, relayVars, renderVars, fbMappers, clock, sceneVars,
                  inputVars, ev, quit, cameraVars, sawNew, outstanding,
                  lastRenderTime, rpcAtQuit >>

\* faulty variant: the display loop does not call unmap_fb()
UnmapFbSkipped ==
  /\ dpc = "unmap_fb"
  /\ dpc' = IF variant = "main" THEN "stamp" ELSE "present"
  /\ UNCHANGED << restVars, auxVars, relayVars,
                  renderVars, fbMappers, clock, sceneVars, inputVars, ev, quit,
                  cameraVars, uploadVars, rpcAtQuit >>

\* AsyncRenderer::unmap_fb():  pixel_lock.unlock();
UnmapFb ==
  /\ dpc = "unmap_fb"
  /\ pixel_lock' = "free"
  /\ outstanding' = outstanding - 1
  /\ dpc' = IF variant = "main" THEN "stamp" ELSE "present"
  /\ UNCHANGED << restVars, auxVars, should_quit, new_pixels, pixels, rIdx, lastPublished,
                  renderVars, fbMappers, clock, sceneVars, inputVars, ev, quit,
                  cameraVars, sawNew, tex, dIdx, lastRenderTime, rpcAtQuit >>

\* lastRenderTime = sg::TimeStamp(); }
DisplayStamp ==
  /\ dpc = "stamp"
  /\ clock' = NextStamp(clock)
  /\ lastRenderTime' = clock'
  /\ dpc' = "present"
  /\ UNCHANGED << restVars, auxVars, relayVars, renderVars, fbMappers, sceneVars, inputVars,
                  ev, quit, cameraVars, sawNew, tex, dIdx, outstanding, rpcAtQuit >>

\* the draw calls and SDL_GL_SwapWindow(window) / glfwSwapBuffers(window)
DisplayPresent ==
  /\ dpc = "present"
  /\ dpc' = IF variant = "part0" THEN "poll" ELSE "loop"
  /\ UNCHANGED << restVars, auxVars, relayVars, renderVars, fbMappers, clock, sceneVars,
                  inputVars, ev, quit, cameraVars, uploadVars, rpcAtQuit >>

\* glDeleteProgram ... SDL_Quit();
DisplayCleanup ==
  /\ dpc = "cleanup"
  /\ dpc' = "dtor_store"
  /\ UNCHANGED << restVars, auxVars, relayVars, renderVars, fbMappers, clock, sceneVars,
                  inputVars, ev, quit, cameraVars, uploadVars, rpcAtQuit >>

\* AsyncRenderer::~AsyncRenderer():  should_quit.store(true);
DtorStore ==
  /\ dpc = "dtor_store"
  /\ should_quit' = TRUE
  /\ rpcAtQuit' = rpc
  /\ dpc' = "join"
  /\ UNCHANGED << restVars, auxVars, new_pixels, pixel_lock, pixels, rIdx, lastPublished,
                  renderVars, fbMappers, clock, sceneVars, inputVars, ev, quit,
                  cameraVars, uploadVars >>

\* return 0;  the value is returned when the destructor of async_renderer is done:
\* AsyncRenderer::~AsyncRenderer():  render_thread.join();
DtorJoin ==
  /\ dpc = "join"
  /\ rpc = "done"
  /\ dpc' = "exit"
  /\ exitCode' = "return 0"
  /\ UNCHANGED << restVars, polls, revertPending, relayVars, renderVars, fbMappers, clock, sceneVars,
                  inputVars, ev, quit, cameraVars, uploadVars, rpcAtQuit >>

\* main() up to the display loop
SetupNext ==
  \/ MainArgs
  \/ DisplayInit
  \/ CreateWindow
  \/ Gl3wInit
  \/ LoadModel
  \/ CreateFrameBuffer
  \/ DisplayInitRender
  \/ DisplayInitMap
  \/ DisplayInitUpload
  \/ DisplayInitUnmap
  \/ DisplayConstruct
  \/ DisplayStart
  \/ DisplayLocals

\* the display loop up to the presentation, but for the handling of input events
LoopBodyNext ==
  \/ DisplayLoopCond
  \/ DisplayPoll
  \/ DisplayRevert
  \/ DisplayLoad
  \/ MapFbLock
  \/ MapFbStore
  \/ DisplayUpload
  \/ UnmapFb
  \/ DisplayStamp

\* the display loop, but for the handling of input events
LoopNext ==
  \/ LoopBodyNext
  \/ DisplayPresent

\* main() after the display loop
ShutdownNext ==
  \/ DisplayCleanup
  \/ DtorStore
  \/ DtorJoin

DisplayNext ==
  \/ SetupNext
  \/ LoopNext
  \/ DisplayKey
  \/ ShutdownNext

Next == RenderNext \/ DisplayNext \/ PostEvent

Spec == Init /\ [][Next]_vars

\* The scheduler runs every thread that can run, and std::mutex hands the lock
\* to a waiting thread once it is free.
LiveSpec == Spec /\ WF_vars(RenderNext) /\ WF_vars(DisplayNext)

\* Fair scheduling of both threads and of pixel_lock: every thread that can run
\* does run, and a thread that waits for the mutex gets it if it is free again
\* and again.
FairInit ==
  /\ variant \in Variants
  /\ frameCap = MaxFrames
  /\ pollCap = 0
  /\ cliOverride = "none"
  /\ mayThrow = FALSE
  /\ eventCap = FairEvents
  /\ dpc = "args"
  /\ ProgramInit
  /\ NoParse
  /\ NoShade

FairLockSpec ==
  /\ FairInit /\ [][Next]_vars
  /\ WF_vars(RenderNext)
  /\ WF_vars(DisplayNext)
  /\ SF_vars(MapFbLock)
  /\ SF_vars(RenderLock)

\* src/main.cpp, followed long enough for the camera to return to the panorama
CamInit ==
  /\ variant = "main"
  /\ frameCap = CamFrames
  /\ pollCap = 0
  /\ cliOverride = "none"
  /\ mayThrow = FALSE
  /\ eventCap = MaxEvents
  /\ dpc = "args"
  /\ ProgramInit
  /\ NoParse
  /\ NoShade

CamSpec == CamInit /\ [][Next]_vars

\* src/main.cpp with a command line that may set the camera's position, followed
\* long enough for the camera to return to the panorama
CliInit ==
  /\ variant = "main"
  /\ frameCap = CamFrames
  /\ pollCap = 0
  /\ cliOverride \in {"none", "camera_pos"}
  /\ mayThrow = FALSE
  /\ eventCap = MaxEvents
  /\ dpc = "args"
  /\ ProgramInit
  /\ NoParse
  /\ NoShade

CliSpec == CliInit /\ [][Next]_vars

\* src/main.cpp with a command line that may set the frame buffer's size
FbInit ==
  /\ variant = "main"
  /\ frameCap = MaxFrames
  /\ pollCap = 0
  /\ cliOverride \in {"none", "fb_size"}
  /\ mayThrow = FALSE
  /\ eventCap = MaxEvents
  /\ dpc = "args"
  /\ ProgramInit
  /\ NoParse
  /\ NoShade

FbSpec == FbInit /\ [][Next]_vars

\* any build, with a render call that may throw
FaultInit ==
  /\ variant \in Variants
  /\ frameCap = MaxFrames
  /\ pollCap = 0
  /\ cliOverride = "none"
  /\ mayThrow = TRUE
  /\ eventCap = MaxEvents
  /\ dpc = "args"
  /\ ProgramInit
  /\ NoParse
  /\ NoShade

FaultNext == Next \/ RenderTerminate

FaultSpec == FaultInit /\ [][FaultNext]_vars

\* src/main.cpp, followed for two more render-loop iterations after the return
RaceInit ==
  /\ variant = "main"
  /\ frameCap = RaceFrames
  /\ pollCap = 0
  /\ cliOverride = "none"
  /\ mayThrow = FALSE
  /\ eventCap = MaxEvents
  /\ dpc = "args"
  /\ ProgramInit
  /\ NoParse
  /\ NoShade

RaceSpec == RaceInit /\ [][Next]_vars

\* ------------------------------------------------------ parseCommandLineSG
\* the value types of scene-graph nodes that are told apart; no try block asks
\* for a vec2f
NodeTypes == {"string", "float", "int", "bool", "vec3f", "vec2i", "vec2f"}

\* the try blocks of parseCommandLineSG, in the order of the source
CoercionOrder == << "string", "float", "int", "bool", "vec3f", "vec2i" >>

\* the tokens of a value that are told apart: an integer, a decimal fraction,
\* and text that is no number
Tokens == {"1", "2.5", "x"}

\* the values of -path=value: ':' and ',' were replaced by blanks, value != ""
ArgValues == UNION {[1..n -> Tokens] : n \in 1..MaxTokens}

\* what an uninitialised float or int may hold
Junk == {0, 7}

\* the node's value before the argument is parsed
OldValue(type) == << type, << >> >>

\* faulty variant: a value cast that converts between the number types
CanCastNumeric(type, T) ==
  \/ type = T
  \/ {type, T} \subseteq {"float", "int", "bool"}

\* node.valueAs<T>() returns only if the node's value has type T, else it throws
CanCast(type, T) == type = T

\* what the stream holds for operator>>(int&): reading "2.5" stops at the point,
\* and the rest is no number
IntStream(toks) ==
  LET Piece(t) == IF t = "2.5" THEN << "2", "x" >> ELSE << t >>
      RECURSIVE Cat(_)
      Cat(ts) == IF ts = << >> THEN << >> ELSE Piece(Head(ts)) \o Cat(Tail(ts))
  IN Cat(toks)

\* operator>> on one token; floats are kept in tenths; on a failure 0 is stored
\* and the stream's failbit is set
ReadFloat(t) ==
  IF t = "1" THEN [ok |-> TRUE, val |-> 10]
  ELSE IF t = "2.5" THEN [ok |-> TRUE, val |-> 25]
  ELSE [ok |-> FALSE, val |-> 0]
ReadInt(t) ==
  IF t = "1" THEN [ok |-> TRUE, val |-> 1]
  ELSE IF t = "2" THEN [ok |-> TRUE, val |-> 2]
  ELSE [ok |-> FALSE, val |-> 0]

\* vals >> x >> y ...: n variables read from the stream; a variable that is
\* reached after the stream has failed or ended is not written
RECURSIVE Extract(_, _, _, _)
Extract(T, stream, n, good) ==
  LET r == IF T = "float" THEN ReadFloat(Head(stream)) ELSE ReadInt(Head(stream))
  IN IF n = 0 THEN << >>
     ELSE IF ~good \/ stream = << >>
       THEN << [written |-> FALSE, val |-> 0] >> \o Extract(T, stream, n - 1, FALSE)
     ELSE << [written |-> TRUE, val |-> r.val] >> \o Extract(T, Tail(stream), n - 1, r.ok)

\* the values the variables can have when they are read: one that was not
\* written is uninitialised
Fill(xs) ==
  {ys \in [1..Len(xs) -> Junk \cup {xs[i].val : i \in 1..Len(xs)}] :
     \A i \in 1..Len(xs) : IF xs[i].written THEN ys[i] = xs[i].val ELSE ys[i] \in Junk}

\* the values the try block for type T can pass to setValue
Coerced(T, toks) ==
  IF T = "string" THEN {<< T, toks >>}
  ELSE IF T = "float" THEN {<< T, ys >> : ys \in Fill(Extract("float", toks, 1, TRUE))}
  ELSE IF T = "int" THEN {<< T, ys >> : ys \in Fill(Extract("int", IntStream(toks), 1, TRUE))}
  ELSE IF T = "bool" THEN {<< T, << IntStream(toks)[1] # "x" >> >>}
  ELSE IF T = "vec3f" THEN {<< T, ys >> : ys \in Fill(Extract("float", toks, 3, TRUE))}
  ELSE {<< T, ys >> : ys \in Fill(Extract("int", IntStream(toks), 2, TRUE))}

\* try { ...; vals >> ...; node.valueAs<T>(); node.setValue(...); } catch(...) {}
\* the k-th try block
Try(k) ==
  /\ attempt = k
  /\ IF CanCast(nodeType, CoercionOrder[k])
       THEN /\ nodeValue' \in Coerced(CoercionOrder[k], argTokens)
            /\ setBy' = Append(setBy, k)
       ELSE UNCHANGED << nodeValue, setBy >>
  /\ attempt' = k + 1
  /\ UNCHANGED << buildVars, shaderVars, sideVars, fbSize, histVars, auxVars, nodeType, argTokens, rpc, dpc,
                  relayVars, fb, fbMappers, frameNo, once, lastRTime, clock,
                  sceneVars, inputVars, ev, quit, cameraVars, uploadVars, rpcAtQuit,
                  passesAfterQuit, pubsAfterQuit >>

TryString == Try(1)
TryFloat == Try(2)
TryInt == Try(3)
TryBool == Try(4)
TryVec3f == Try(5)
TryVec2i == Try(6)

ParseNext == TryString \/ TryFloat \/ TryInt \/ TryBool \/ TryVec3f \/ TryVec2i

\* src/main.cpp at parseCommandLineSG(argc, argv, renderer), with one argument
\* -path=value whose path names a node of any value type
ParseInit ==
  /\ variant = "main"
  /\ frameCap = MaxFrames
  /\ pollCap = 0
  /\ cliOverride = "none"
  /\ mayThrow = FALSE
  /\ eventCap = MaxEvents
  /\ dpc = "parse_sg"
  /\ ProgramInit
  /\ NoShade
  /\ nodeType \in NodeTypes
  /\ nodeValue = OldValue(nodeType)
  /\ argTokens \in ArgValues
  /\ attempt = 1
  /\ setBy = << >>

ParseSpec == ParseInit /\ [][ParseNext]_vars

\* ---------------------------------------------------------- fragment shader
\* Normalized directions whose angles are whole multiples of pi/4: a component is
\* kept as 2 for 1, 1 for 1/sqrt(2), 0 for 0, and their negatives; a direction has
\* one component of size 1 or two of size 1/sqrt(2).
Dirs ==
  {d \in [1..3 -> -2..2] :
     \/ \E i \in 1..3 : d[i] \in {-2, 2} /\ \A j \in 1..3 \ {i} : d[j] = 0
     \/ \E i \in 1..3 : d[i] = 0 /\ \A j \in 1..3 \ {i} : d[j] \in {-1, 1}}

\* GLSL atan(y, x) in units of pi/4, for two components of a direction of Dirs;
\* the result is undefined when both are 0
Atan2(y, x) ==
  IF x = 0 /\ y = 0 THEN -4..4
  ELSE IF x > 0 THEN {IF y > 0 THEN 1 ELSE IF y = 0 THEN 0 ELSE -1}
  ELSE IF x = 0 THEN {IF y > 0 THEN 2 ELSE -2}
  ELSE {IF y > 0 THEN 3 ELSE IF y = 0 THEN 4 ELSE -3}

\* GLSL acos(c) in units of pi/4, for a component of a direction of Dirs
Acos(c) == 2 - c

\* (atan(a, b) + PI / 2) / (2 * PI) in eighths, acos(c) / PI in quarters
TexCoords(a, b, c) == {<< t + 2, Acos(c) >> : t \in Atan2(a, b)}

\* faulty variant: the arguments of atan the other way round
ShaderUVSwapped(v, d) ==
  IF v = "part0" THEN TexCoords(d[1], d[2], d[3]) ELSE TexCoords(d[1], d[3], d[2])

\* float u = (atan(dir.z, dir.x) + PI / 2) / (2 * PI); float v = acos(dir.y) / PI;
\* part_000:  atan(dir.y, dir.x)  and  acos(dir.z)
ShaderUV(v, d) ==
  IF v = "part0" THEN TexCoords(d[2], d[1], d[3]) ELSE TexCoords(d[3], d[1], d[2])

\* the fragment shader's main(): one fragment is shaded
Shade ==
  /\ dpc = "fragment"
  /\ uv' \in ShaderUV(variant, dir)
  /\ dpc' = "shaded"
  /\ UNCHANGED << buildVars, cliVars, sideVars, fbSize, histVars, auxVars, dir, rpc, relayVars, fb, fbMappers,
                  frameNo, once, lastRTime, clock, sceneVars, inputVars, ev, quit,
                  cameraVars, uploadVars, rpcAtQuit, passesAfterQuit, pubsAfterQuit >>

\* any build, drawing a fragment of the cube whose direction is one of Dirs
ShaderInit ==
  /\ variant \in Variants
  /\ frameCap = MaxFrames
  /\ pollCap = 0
  /\ cliOverride = "none"
  /\ mayThrow = FALSE
  /\ eventCap = MaxEvents
  /\ dpc = "fragment"
  /\ ProgramInit
  /\ NoParse
  /\ dir \in Dirs
  /\ uv = << 0, 0 >>

ShaderSpec == ShaderInit /\ [][Shade]_vars

\* The polling scenario: any build, no input events; the render thread makes
\* ScenarioPasses passes after the initial frame and the display loop is followed
\* for ScenarioPolls iterations.
ScenarioInit ==
  /\ variant \in Variants
  /\ frameCap = ScenarioPasses + 1
  /\ pollCap = ScenarioPolls
  /\ cliOverride = "none"
  /\ mayThrow = FALSE
  /\ eventCap = MaxEvents
  /\ dpc = "args"
  /\ ProgramInit
  /\ NoParse
  /\ NoShade

ScenarioNext == RenderNext \/ SetupNext \/ LoopNext

ScenarioSpec == ScenarioInit /\ [][ScenarioNext]_vars

\* ================================================================== claims
\* statements of the render loop during which the thread holds pixel_lock
RenderLocked == {"copy", "flag", "unmap", "unlock"}
\* statements of the display loop between map_fb() returning and unmap_fb()
DisplayMapped == {"upload", "unmap_fb"}
\* the scene-graph traversals of the render thread
Traversals == {"verify", "commit", "render"}

\* C1 -- No tearing: while the display thread is between map_fb() returning and
\* unmap_fb(), the relay buffer holds, in every pixel, the frame of the last
\* completed copy, and the texture it has filled when it calls unmap_fb() is that
\* one frame.
C1_NoTearing ==
  /\ dpc \in DisplayMapped => lastPublished # 0 /\ pixels = Frame(lastPublished)
  /\ dpc = "unmap_fb" => tex = Frame(lastPublished)

\* C1 witness: the display thread has read a whole published frame while the render
\* thread, holding a newer frame, waits for pixel_lock.
C1_Witness ==
  /\ dpc = "unmap_fb" /\ tex = Frame(lastPublished) /\ lastPublished # 0
  /\ rpc = "lock" /\ fb > lastPublished

\* C2 -- Mutual exclusion: the render thread is inside its copy only while it holds
\* pixel_lock, the display thread is between map_fb() and unmap_fb() only while it
\* holds pixel_lock, and the two never happen in the same state.
C2_MutualExclusion ==
  /\ rpc = "copy" => pixel_lock = "render"
  /\ dpc \in DisplayMapped \cup {"map_store"} => pixel_lock = "display"
  /\ ~(rpc = "copy" /\ dpc \in DisplayMapped \cup {"map_store"})

\* C2 witness: the render thread is copying while the display thread, having seen
\* new_pixels, waits in map_fb() for the lock.
C2_Witness == rpc = "copy" /\ rIdx > 1 /\ dpc = "map_lock" /\ pixel_lock = "render"

\* C3 (as stated) -- new_pixels is false during the whole time the display thread
\* holds pixel_lock.
C3_FlagFalseWhileDisplayHoldsLock == pixel_lock = "display" => ~new_pixels

\* C3 (amended) -- new_pixels becomes true only by the render thread's store after
\* the full copy, with pixel_lock held; it becomes false only by the store in
\* map_fb(), with pixel_lock held; and it is false from map_fb() returning until
\* unmap_fb().
C3_NewPixelsTransitions ==
  /\ [][(~new_pixels /\ new_pixels') =>
          (rpc = "flag" /\ pixel_lock = "render" /\ pixels = Frame(fb))]_vars
  /\ [][(new_pixels /\ ~new_pixels') =>
          (dpc = "map_store" /\ pixel_lock = "display")]_vars
  /\ [](dpc \in DisplayMapped => ~new_pixels)

\* C3 witness: the display thread reads the buffer with the flag cleared while the
\* render thread already waits to publish the next frame.
C3_Witness == dpc = "upload" /\ ~new_pixels /\ pixel_lock = "display" /\ rpc = "lock"

\* C4 -- No missed frame: new_pixels is true when the render thread releases
\* pixel_lock, only map_fb() makes it false, and whenever pixel_lock is free and
\* new_pixels is false the last published frame, if any, is the one the display
\* thread has acquired and uploaded.
C4_NoMissedFrame ==
  /\ [](rpc = "unlock" => new_pixels)
  /\ [][(new_pixels /\ ~new_pixels') => dpc = "map_store"]_vars
  /\ [](pixel_lock = "free" /\ ~new_pixels /\ lastPublished # 0
          => tex = Frame(lastPublished))

\* C4 witness: two frames were published and the second one has been acquired.
C4_Witness ==
  /\ pixel_lock = "free" /\ ~new_pixels /\ lastPublished = 3
  /\ tex = Frame(3) /\ dpc = "present"

\* C5 -- Shutdown liveness: once should_quit is stored true the render thread
\* leaves its loop and the join returns; while the destructor waits the render
\* thread is never stuck.
C5_ShutdownLiveness ==
  /\ should_quit ~> (rpc = "done" /\ dpc = "exit")
  /\ [](dpc = "join" => rpc = "done" \/ ENABLED RenderNext)

\* C5 witness: shutdown was stored while the render thread was inside a render
\* pass, and the join has returned.
C5_Witness == dpc = "exit" /\ rpc = "done" /\ rpcAtQuit = "render"

\* C6 -- should_quit is read only at the loop boundary: the loop is left only from
\* its condition, every pass that has returned has been published when the
\* condition is next read, a started pass leads to its publish step, and after
\* the store at most one more pass starts and at most one more frame is published.
C6_QuitOnlyAtLoopBoundary ==
  /\ [][rpc' = "done" => rpc \in {"check", "done"}]_vars
  /\ [](rpc \in {"check", "done"} =>
          lastPublished = IF frameNo > 1 THEN frameNo ELSE 0)
  /\ [](passesAfterQuit <= 1 /\ pubsAfterQuit <= 1)
  /\ (rpc = "render") ~> (rpc = "unmap")

\* C6 witness: the store came after the loop condition was read; one more pass was
\* started and published before the thread left the loop.
C6_Witness == rpc = "done" /\ passesAfterQuit = 1 /\ pubsAfterQuit = 1

\* C7 -- The render thread holds pixel_lock exactly from the copy to the end of
\* the iteration, and never inside the render call.
C7_LockNotHeldWhileRendering ==
  /\ pixel_lock = "render" <=> rpc \in RenderLocked
  /\ rpc \in Traversals => pixel_lock # "render"

\* C7 witness: the display thread holds the lock and reads the buffer while a
\* render pass is running.
C7_Witness == rpc = "render" /\ dpc = "upload" /\ pixel_lock = "display"

\* C8 -- A display-loop iteration that reads new_pixels as false goes on to the
\* draw without touching pixel_lock, new_pixels or the texture; map_fb() is
\* reached only after new_pixels was read as true.
C8_IdleIterationKeepsTexture ==
  /\ [][(dpc = "load" /\ dpc' # dpc /\ ~new_pixels) =>
          (dpc' = "present" /\ ~sawNew' /\ tex' = tex /\ new_pixels' = new_pixels
           /\ pixel_lock' = pixel_lock /\ outstanding' = outstanding)]_vars
  /\ [][(dpc = "present" /\ dpc' # dpc) =>
          (tex' = tex /\ new_pixels' = new_pixels /\ pixel_lock' = pixel_lock
           /\ outstanding' = outstanding)]_vars
  /\ [](dpc \in DisplayMapped \cup {"map_lock", "map_store"} => sawNew)

\* C8 witness: an iteration that read the flag as false draws the frame uploaded
\* earlier, although the render thread has published a newer one meanwhile.
C8_Witness ==
  /\ dpc = "present" /\ ~sawNew /\ new_pixels
  /\ tex = Frame(2) /\ lastPublished = 3

\* C9 -- map_fb() and unmap_fb() are paired: map_fb() is called only with no
\* unmatched map_fb(), unmap_fb() only with one, and at the end of an iteration
\* and from the destructor on the display thread holds neither.
C9_MapUnmapPaired ==
  /\ [](outstanding \in {0, 1})
  /\ [][outstanding' > outstanding => outstanding = 0]_vars
  /\ [][outstanding' < outstanding => outstanding = 1]_vars
  /\ [](dpc \in {"present", "loop", "poll", "cleanup", "dtor_store", "join", "exit"}
          => outstanding = 0 /\ pixel_lock # "display")

\* C9 witness: the program has ended after at least one upload through map_fb().
C9_Witness ==
  /\ variant = "main" /\ dpc = "exit" /\ outstanding = 0
  /\ lastPublished # 0 /\ tex = Frame(lastPublished)

\* C10 -- After the render thread has started, the display thread does not access
\* the scene graph while the render thread runs a verify, commit or render
\* traversal.
C10_SceneGraphRenderThreadOnly == ~(dpc = "key" /\ rpc \in Traversals)

\* the display-loop step at `here` is completed
DisplayStep(here) == dpc = here /\ dpc' # here

\* C11 (as stated) -- Camera reversion timing: interactiveCamera becomes false in
\* the first display-loop iteration in which no movement event is handled.
C11_RevertsInFirstIdleIteration ==
  [][(DisplayStep("revert") /\ ~moved /\ interactiveCamera) => ~interactiveCamera']_vars

\* C11 (amended) -- Camera reversion timing: interactiveCamera becomes true in the
\* iteration that handles a movement key-down and only there; it stays true through
\* every iteration that handles a movement and through every movement-free
\* iteration in which lastRenderTime is not more than RevertDelay time stamps
\* after lastUpdateTime; it becomes false in the first movement-free iteration in
\* which lastRenderTime > lastUpdateTime + RevertDelay, never earlier.
C11_ReversionTiming ==
  /\ [][DisplayStep("key") => (interactiveCamera' /\ moved')]_vars
  /\ [][(~interactiveCamera /\ interactiveCamera') => dpc = "key"]_vars
  /\ [][(interactiveCamera /\ ~interactiveCamera') =>
          (dpc = "revert" /\ ~moved /\ lastRenderTime > lastUpdateTime + RevertDelay)]_vars
  /\ [][(DisplayStep("revert") /\ interactiveCamera /\ ~moved
          /\ lastRenderTime > lastUpdateTime + RevertDelay) => ~interactiveCamera']_vars

\* C11 witness: the camera has just returned, in an iteration without a movement,
\* after the cameras were moved and RevertDelay time stamps went by.
C11_Witness ==
  /\ dpc = "load" /\ ~interactiveCamera /\ ~moved /\ revertPending = "reverted"
  /\ perspPos # PanoramicCameraInitPos /\ lastRenderTime > lastUpdateTime + RevertDelay

\* C12 -- Camera mode: the mode is Static (interactiveCamera false) or Interactive,
\* Static until a movement is handled; a handled movement key-down leads to
\* Interactive from either mode; Interactive is left only by the reversion step;
\* and a step of the display thread other than the key branch and the reversion,
\* the reversion test of a Static iteration included, leaves the mode and both
\* cameras as they are.
C12_CameraModes ==
  /\ [](interactiveCamera \in BOOLEAN /\ (nEvents = 0 => ~interactiveCamera))
  /\ [][DisplayStep("key") => (interactiveCamera' /\ cameraChild' = "perspective")]_vars
  /\ [][(interactiveCamera /\ ~interactiveCamera') =>
          (dpc = "revert" /\ cameraChild' = "panoramic")]_vars
  /\ [][(dpc' # dpc /\ ~(dpc = "key") /\ ~(dpc = "revert" /\ interactiveCamera)) =>
          (interactiveCamera' = interactiveCamera /\ UNCHANGED sceneVars)]_vars

\* C12 witness: a Static iteration without a movement has passed the reversion test
\* with the delay elapsed, and the cameras are as they were set up.
C12_Witness ==
  /\ dpc = "load" /\ ~interactiveCamera /\ ~moved
  /\ lastRenderTime > lastUpdateTime + RevertDelay
  /\ cameraChild = "panoramic" /\ childrenLastModified = 0
  /\ panoPos = PanoramicCameraInitPos /\ perspPos = PanoramicCameraInitPos

\* C13 -- Forced recommit after reversion: the render-loop iteration that is the
\* next to begin after the display loop has returned the camera to the panorama
\* and marked it modified runs verify and commit before its render traversal.
C13_RecommitAfterReversion ==
  [][(rpc = "modcheck" /\ rpc' # rpc /\ revertPending = "begun") => rpc' = "verify"]_vars

\* every pass of the render thread and every poll of the display loop is completed
ScenarioDone ==
  /\ pollCap > 0 /\ polls = pollCap /\ dpc = "loop"
  /\ frameNo = frameCap /\ rpc = "check"

\* C14 (as stated) -- Scenario: once all passes and all polls are completed, the
\* texture uploaded last is the frame of the last pass, in every interleaving.
C14_FinalTextureIsLastFrame == ScenarioDone => tex = Frame(frameCap)

\* C14 (amended) -- Scenario: once all passes and all polls are completed, the
\* texture uploaded last is the frame of the last pass exactly when a poll has read
\* new_pixels after that frame was published (new_pixels is false again);
\* otherwise new_pixels is still true and the texture is a whole earlier frame
\* (in part_001, while nothing was uploaded from the relay buffer, it is what the
\* initial upload read from the frame buffer the render thread was writing).
C14_FinalTextureIsLastAcquired ==
  ScenarioDone =>
    IF new_pixels
      THEN IF variant = "part1" /\ lastUploaded = 0
             THEN \A i \in Pixels : tex[i] \in 1..2
             ELSE \E k \in 1..(frameCap - 1) : tex = Frame(k)
      ELSE tex = Frame(frameCap)

\* C14 witness: the scenario is completed and the last frame is in the texture,
\* although the display loop has skipped a frame on the way (src/main.cpp takes one
\* time stamp per pass and one per upload, after three at set-up).
C14_Witness ==
  /\ ScenarioDone /\ ~new_pixels /\ tex = Frame(frameCap)
  /\ variant = "main" /\ lastRenderTime = clock /\ clock < 2 * frameCap + 1

\* C15 -- Exit codes: main() ends only by returning 1 or 0; it returns 1 when a
\* start-up step fails (no argument, display, window or context initialisation,
\* model load), before the render thread exists, and 0 when the display loop has
\* ended on a quit request.
C15_ExitCodes ==
  /\ exitCode \in {"none", "return 0", "return 1"}
  /\ dpc = "exit" <=> exitCode # "none"
  /\ exitCode = "return 1" => (rpc = "none" /\ ~quit)
  /\ exitCode = "return 0" => (rpc = "done" /\ quit)

\* C16 -- parseCommandLineSG tries the coercions string, float, int, bool, 3-float
\* vector, 2-int vector in that order against the node's declared type: at most one
\* try block sets the value, it is the first whose type is the node's, the value
\* it sets is of that type and no later try block changes it; when none matches
\* the value stays as it was; and all six try blocks are passed without an error.
C16_CoercionOrder ==
  /\ [](attempt \in 0..7 /\ Len(setBy) <= 1)
  /\ [](setBy # << >> =>
          /\ CoercionOrder[setBy[1]] = nodeType /\ nodeValue[1] = nodeType
          /\ \A j \in 1..(setBy[1] - 1) : CoercionOrder[j] # nodeType)
  /\ [](setBy = << >> /\ attempt > 0 => nodeValue = OldValue(nodeType))
  /\ [](attempt = 7 => (setBy = << >> <=> \A j \in 1..6 : CoercionOrder[j] # nodeType))
  /\ [][setBy # << >> => nodeValue' = nodeValue]_vars
  /\ [][attempt' # attempt => attempt' = attempt + 1]_vars

\* C16 witness: -path=2.5,x on an int node: the third try block has set the value
\* to 2 and the later try blocks have left it alone.
C16_Witness ==
  /\ attempt = 7 /\ nodeType = "int" /\ argTokens = << "2.5", "x" >>
  /\ setBy = << 3 >> /\ nodeValue[2] = << 2 >>

\* C17 (as stated) -- In every variant the fragment shader maps a normalized
\* direction d to u = (atan2(d.z, d.x) + pi/2) / (2 pi) and v = acos(d.y) / pi.
C17_SameMappingInEveryVariant ==
  dpc = "shaded" => uv \in TexCoords(dir[3], dir[1], dir[2])

\* C17 (amended) -- The fragment shader of src/main.cpp and of part_001 maps a
\* normalized direction d to u = (atan2(d.z, d.x) + pi/2) / (2 pi), v = acos(d.y) / pi;
\* the shader of part_000 maps it to u = (atan2(d.y, d.x) + pi/2) / (2 pi),
\* v = acos(d.z) / pi.
C17_MappingPerVariant ==
  dpc = "shaded" =>
    IF variant = "part0"
      THEN uv \in TexCoords(dir[2], dir[1], dir[3])
      ELSE uv \in TexCoords(dir[3], dir[1], dir[2])

\* C17 witness: src/main.cpp has shaded the direction (0, 0, 1): u = 1/2, v = 1/2.
C17_Witness ==
  /\ variant = "main" /\ dpc = "shaded"
  /\ dir = << 0, 0, 2 >> /\ uv = << 4, 2 >>

\* the statements of AsyncRendererSg::run, each with the ones that can follow it
RunOrder ==
  { << "none", "check" >>, << "check", "modcheck" >>, << "check", "done" >>,
    << "modcheck", "verify" >>, << "modcheck", "stamp" >>, << "verify", "commit" >>,
    << "commit", "stamp" >>, << "stamp", "render" >>, << "render", "map" >>,
    << "map", "lock" >>, << "lock", "copy" >>, << "copy", "flag" >>,
    << "flag", "unmap" >>, << "unmap", "unlock" >>, << "unlock", "check" >> }

\* C18 -- Each iteration of AsyncRendererSg::run goes, in this order, through the
\* optional verify and then commit, the recording of lastRTime, the render
\* traversal, the mapping of the frame buffer, the acquisition of pixel_lock, the
\* copy of the full frame, the store to new_pixels, the unmapping and the release
\* of pixel_lock; the frame buffer is never mapped while a render traversal runs
\* and every mapping is undone before the next render traversal.
C18_IterationOrder ==
  /\ [][(variant = "main" /\ rpc' # rpc) => << rpc, rpc' >> \in RunOrder]_vars
  /\ [][(variant = "main" /\ rpc' # rpc) =>
          /\ rpc = "stamp" => lastRTime' = clock' /\ clock' > clock
          /\ rpc = "map" => "render" \in fbMappers'
          /\ rpc = "lock" => pixel_lock' = "render"
          /\ rpc = "copy" => pixels' = Frame(fb)
          /\ rpc = "flag" => new_pixels'
          /\ rpc = "unmap" => ~("render" \in fbMappers') /\ pixel_lock' = "render"
          /\ rpc = "unlock" => pixel_lock' = "free"]_vars
  /\ [](variant = "main" =>
          /\ rpc \in Traversals => fbMappers = {}
          /\ "render" \in fbMappers <=> rpc \in {"lock", "copy", "flag", "unmap"})

\* C18 witness: the second iteration of AsyncRendererSg::run is inside its render
\* traversal; the first has published its frame and the frame buffer is unmapped.
C18_Witness ==
  /\ variant = "main" /\ rpc = "render" /\ frameNo = 2
  /\ lastPublished = 2 /\ fbMappers = {}

\* C19 -- AsyncRendererSg::run runs verify and commit in its first iteration
\* whatever the time stamps are, and in a later iteration exactly when the renderer
\* subtree's last-modified time stamp is newer than the lastRTime recorded in the
\* iteration before; otherwise the iteration goes straight on to the recording of
\* lastRTime and the render traversal.
C19_RecommitCondition ==
  [][(variant = "main" /\ rpc = "modcheck" /\ rpc' # rpc) =>
       /\ rpc' \in {"verify", "stamp"}
       /\ frameNo = 1 => rpc' = "verify"
       /\ frameNo > 1 => (rpc' = "verify" <=> childrenLastModified > lastRTime)]_vars

\* C19 witness: a later iteration runs verify because a camera movement was
\* stamped after the lastRTime of the iteration before.
C19_Witness ==
  /\ variant = "main" /\ rpc = "verify" /\ frameNo = 2 /\ once
  /\ childrenLastModified > lastRTime

\* C20 -- At the end of every display-loop iteration the renderer's camera child
\* is the perspective camera if interactiveCamera is true and the panoramic camera
\* if it is false; the camera child is always one of the two.
C20_ActiveCameraMatchesMode ==
  /\ cameraChild \in {"panoramic", "perspective"}
  /\ dpc \in {"present", "loop"} =>
       cameraChild = (IF interactiveCamera THEN "perspective" ELSE "panoramic")

\* C20 witness: an iteration ends with the panoramic camera active again, after the
\* perspective camera was active and the camera returned.
C20_Witness ==
  /\ dpc = "present" /\ ~interactiveCamera /\ cameraChild = "panoramic"
  /\ revertPending = "reverted" /\ perspPos # PanoramicCameraInitPos

\* C21 -- After setup and after every handled movement event the panoramic
\* camera's position equals the perspective camera's: whenever the display loop
\* of src/main.cpp is at the head of an iteration, or has handled a movement, the
\* two positions are the same.
C21_CamerasTogether ==
  variant = "main" /\ dpc \in {"loop", "revert", "present"} => panoPos = perspPos

\* C21, the movement itself: SDLK_UP sets both positions to the perspective
\* camera's position plus 5 dir, SDLK_DOWN to it minus 5 dir, and no other step
\* of the display loop (the reversion included) changes either position.
C21_MovementSteps ==
  [][/\ (DisplayStep("key") /\ ev = "UP") =>
          /\ perspPos' = VecAdd(perspPos, VecScale(CameraDir, StepSize))
          /\ panoPos' = perspPos'
     /\ (DisplayStep("key") /\ ev = "DOWN") =>
          /\ perspPos' = VecAdd(perspPos, VecScale(CameraDir, -StepSize))
          /\ panoPos' = perspPos'
     /\ ~(DisplayStep("key") \/ DisplayStep("framebuffer")) =>
          UNCHANGED << panoPos, perspPos >>]_vars

\* C22 -- In every variant the initial frame is rendered, mapped, uploaded and
\* unmapped by the main thread before the render thread is started, and the main
\* thread never has the renderer's frame buffer mapped while the render thread is
\* in a render call.
C22_InitialFrameBeforeThread ==
  /\ dpc \in {"init_render", "init_map", "init_upload", "init_unmap"} => rpc = "none"
  /\ "main" \in fbMappers => rpc # "render"

\* C23 -- If a render pass fails (the render call throws), the render loop does
\* not retry it and the failed pass publishes nothing: from the failure on the
\* render thread runs no further statement of its loop, pixels and the last
\* published frame stay as they are, new_pixels is not set, and pixel_lock is not
\* held by the render thread.
C23_FailedPassPublishesNothing ==
  [][passFailed' =>
       /\ rpc' \in {"terminate", "killed"}
       /\ UNCHANGED << pixels, lastPublished, rIdx >>
       /\ new_pixels' => new_pixels
       /\ pixel_lock # "render" /\ pixel_lock' # "render"]_vars

\* C23 witness: a pass has failed after an earlier frame was published, and the
\* display loop is taking that frame while the process has not ended yet.
C23_Witness ==
  /\ passFailed /\ rpc = "terminate" /\ lastPublished > 0
  /\ dpc = "upload" /\ dIdx = NPix

\* C24 -- Frames uploaded by the display loop are strictly increasing in publish
\* order: every upload from the relay buffer that completes has put one whole
\* published frame into the texture, and that frame is newer than the frame of the
\* upload before; no frame is uploaded twice and none after a newer one.
C24_UploadsStrictlyIncreasing ==
  [][(dpc = "upload" /\ dpc' = "unmap_fb") =>
       /\ tex' = Frame(lastUploaded')
       /\ lastUploaded' > lastUploaded
       /\ lastUploaded' = lastPublished]_vars

\* C24 witness: an upload of a newer frame is about to complete after an earlier
\* upload from the relay buffer.
C24_Witness ==
  /\ dpc = "upload" /\ dIdx = NPix /\ lastUploaded > 0
  /\ pixels[NPix] > lastUploaded /\ tex[1] = pixels[NPix]

\* C25 -- The relay's initial zero-filled buffer is never uploaded: whenever the
\* display loop is in map_fb() or in the upload, it has read new_pixels true, at
\* least one publish has completed, and once map_fb() holds the lock the relay
\* buffer is one fully rendered frame without a pixel of the initial fill.
C25_InitialBufferNeverUploaded ==
  /\ dpc \in {"map_lock", "map_store", "upload", "unmap_fb"} =>
       sawNew /\ lastPublished > 0
  /\ dpc \in {"map_store", "upload", "unmap_fb"} =>
       \A i \in Pixels : pixels[i] = lastPublished /\ pixels[i] # Frame(0)[i]
  /\ lastUploaded # 0 => \A i \in Pixels : tex[i] # Frame(0)[i]

\* C25 witness: the first call of map_fb() in a run holds the lock, right after
\* the first publish; nothing was uploaded from the relay buffer before.
C25_Witness ==
  /\ dpc = "map_store" /\ sawNew /\ lastUploaded = 0
  /\ pixel_lock = "display" /\ pixels = Frame(lastPublished) /\ pubsAfterQuit = 0

\* C26 -- For every command line accepted by parseCommandLineSG the frame buffer
\* the render loop copies from holds exactly PANORAMIC_WIDTH x PANORAMIC_HEIGHT
\* pixels, the size of the relay buffer: while the render thread is copying, the
\* frame buffer has NPix pixels and the pixel read lies inside it (the pixel
\* written always lies inside pixels).
C26_CopyWithinFrameBuffer ==
  rpc = "copy" => fbSize = NPix /\ rIdx <= fbSize /\ rIdx \in DOMAIN pixels

\* C27 -- The display loop reverts from Interactive to Static only in an
\* iteration without a movement in which a frame upload has happened after the
\* last handled movement event (lastRenderTime > lastUpdateTime + 5); while no
\* frame has been uploaded since the last movement, the reversion test leaves
\* interactiveCamera true, however many event-free iterations run.
C27_RevertsOnlyAfterUpload ==
  [][/\ (interactiveCamera /\ ~interactiveCamera') =>
          /\ DisplayStep("revert") /\ ~moved
          /\ uploadedSinceMove
          /\ lastRenderTime > lastUpdateTime + RevertDelay
     /\ (DisplayStep("revert") /\ interactiveCamera /\ ~uploadedSinceMove) =>
          interactiveCamera']_vars

\* C27 witness: the camera has just returned to the panorama, after an upload
\* that followed the last movement.
C27_Witness ==
  /\ dpc = "load" /\ ~interactiveCamera /\ revertPending = "reverted"
  /\ uploadedSinceMove /\ ~moved /\ lastRenderTime > lastUpdateTime + RevertDelay

\* C27 witness of the other case: an event-free iteration has passed the
\* reversion test with the camera still interactive, as nothing was uploaded
\* since the movement.
C27_StillInteractive ==
  /\ dpc = "load" /\ interactiveCamera /\ ~moved /\ ~uploadedSinceMove

\* C28 -- Each display-loop iteration of src/main.cpp handles at most one
\* movement key-down: the key branch runs only when no movement was handled in
\* the iteration, and it ends the polling with the events queued behind it left
\* in the queue; once a quit event is handled, the polling ends, the iteration is
\* finished, no event is polled any more and the loop is left at its next test.
C28_OneMovementPerIteration ==
  [][variant = "main" =>
       /\ dpc \in {"poll", "key"} => ~moved
       /\ DisplayStep("key") => dpc' = "revert" /\ moved' /\ events' = events
       /\ (DisplayStep("poll") /\ quit') => dpc' = "revert"
       /\ quit => /\ events' = events
                  /\ dpc' \notin {"poll", "key"}
                  /\ dpc = "loop" => dpc' \in {"loop", "cleanup"}]_vars

\* C28 witness: a movement was handled and the polling has ended with a quit
\* event still in the queue behind it.
C28_Witness ==
  /\ variant = "main" /\ dpc = "revert" /\ moved /\ ~quit
  /\ events # << >> /\ IsQuitEvent(Head(events))

\* C28 witness of the quit: the queued quit event was handled in a later
\* iteration, which has been finished, and the loop is left.
C28_QuitLater ==
  /\ variant = "main" /\ dpc = "cleanup" /\ quit /\ ~moved /\ interactiveCamera
  /\ events = << >> /\ nEvents = MaxEvents

\* C30 -- In src/main.cpp the render thread exists only after start(): the thread
\* is started at most once, it exists exactly when start() has been called, and
\* ~AsyncRenderer is reached only for an object whose start() was called, so
\* that render_thread.join() acts on a joinable thread.
C30_JoinAfterStart ==
  variant = "main" =>
    /\ starts <= 1
    /\ rpc # "none" <=> starts = 1
    /\ dpc \in {"dtor_store", "join"} => starts = 1 /\ rpc \notin {"none", "killed"}
    /\ dpc \in {"construct", "start"} => starts = 0

\* C30 witness: the destructor is waiting in join() for the thread that start()
\* started, which is still in a render call.
C30_Witness ==
  /\ variant = "main" /\ dpc = "join" /\ starts = 1 /\ rpc = "render" /\ should_quit

\* C29 -- Under fair scheduling of both threads and of pixel_lock, while the
\* display loop keeps iterating (no quit request was handled), every state with
\* new_pixels true is eventually followed by a completed upload of the frame
\* published last, which is at least as new as the frame that set the flag (as
\* long as the flag is true, that frame is newer than every frame uploaded so
\* far); so the last frame published is eventually uploaded.
C29_PublishedFrameEventuallyUploaded ==
  /\ [](new_pixels => lastUploaded < lastPublished)
  /\ new_pixels ~> (quit \/ (~new_pixels /\ lastUploaded = lastPublished))
  /\ (lastPublished = frameCap) ~> (quit \/ lastUploaded = frameCap)

\* C29 witness: the render thread has published its last frame and stopped, and
\* the display loop, still iterating, has completed the upload of that frame.
C29_Witness ==
  /\ lastUploaded = frameCap /\ frameNo = frameCap /\ rpc = "check"
  /\ ~quit /\ dpc = "unmap_fb" /\ sawNew

\* ---------------------------------------------------------------------------
\* The cube drawn by glDrawArrays(GL_TRIANGLE_STRIP, 0, CUBE_STRIP.size() / 3)

\* faulty variant: the ninth vertex repeats the eighth
CubeStripDented ==
  << 1, 1, -1,
     -1, 1, -1,
     1, 1, 1,
     -1, 1, 1,
     -1, -1, 1,
     -1, 1, -1,
     -1, -1, -1,
     1, 1, -1,
     1, 1, -1,
     1, 1, 1,
     1, -1, 1,
     -1, -1, 1,
     1, -1, -1,
     -1, -1, -1 >>

\* const std::array<float, 42> CUBE_STRIP
CUBE_STRIP ==
  << 1, 1, -1,
     -1, 1, -1,
     1, 1, 1,
     -1, 1, 1,
     -1, -1, 1,
     -1, 1, -1,
     -1, -1, -1,
     1, 1, -1,
     1, -1, -1,
     1, 1, 1,
     1, -1, 1,
     -1, -1, 1,
     1, -1, -1,
     -1, -1, -1 >>

\* glVertexAttribPointer(0, 3, GL_FLOAT, GL_FALSE, 0, 0): three floats a vertex
VertexSize == 3

\* the count passed to glDrawArrays: CUBE_STRIP.size() / 3
StripCount == Len(CUBE_STRIP) \div VertexSize

\* vertex k (from 1) of the bound array, read as the attribute pointer says
Vertex(k) ==
  << CUBE_STRIP[VertexSize * (k - 1) + 1],
     CUBE_STRIP[VertexSize * (k - 1) + 2],
     CUBE_STRIP[VertexSize * (k - 1) + 3] >>

\* GL_TRIANGLE_STRIP: triangle k is made of the vertices k, k + 1 and k + 2
Triangle(k) == { Vertex(k), Vertex(k + 1), Vertex(k + 2) }

\* the triangles assembled once n vertices have been read
Assembled(n) == IF n < 3 THEN {} ELSE 1..(n - 2)

\* the framebuffers a build draws the cube to: the two eyes of the headset
\* (OPENVR_ENABLED in src/main.cpp, always in part_001) and the window
DrawTargets(v) ==
  IF v = "part0" THEN {"window"} ELSE {"eye0", "eye1", "window"}

\* glDrawArrays(GL_TRIANGLE_STRIP, 0, CUBE_STRIP.size() / 3) is called
DrawArrays ==
  /\ dpc = "draw"
  /\ drawTarget = "none"
  /\ \E t \in DrawTargets(variant) : drawTarget' = t
  /\ nVerts' = 0
  /\ UNCHANGED << fixedVars, vrVars, glVars, fbSize, histVars, auxVars, relayVars,
                  renderVars, fbMappers, clock, sceneVars, inputVars, ev, quit,
                  cameraVars, uploadVars, rpcAtQuit, passesAfterQuit, pubsAfterQuit,
                  rpc, dpc >>

\* primitive assembly reads the next vertex of the array
DrawVertex ==
  /\ dpc = "draw"
  /\ drawTarget # "none"
  /\ nVerts < StripCount
  /\ nVerts' = nVerts + 1
  /\ UNCHANGED << fixedVars, vrVars, glVars, fbSize, histVars, auxVars, relayVars,
                  renderVars, fbMappers, clock, sceneVars, inputVars, ev, quit,
                  cameraVars, uploadVars, rpcAtQuit, passesAfterQuit, pubsAfterQuit,
                  rpc, dpc, drawTarget >>

\* the draw call is complete
DrawDone ==
  /\ dpc = "draw"
  /\ drawTarget # "none"
  /\ nVerts = StripCount
  /\ drawTarget' = "none"
  /\ nVerts' = 0
  /\ UNCHANGED << fixedVars, vrVars, glVars, fbSize, histVars, auxVars, relayVars,
                  renderVars, fbMappers, clock, sceneVars, inputVars, ev, quit,
                  cameraVars, uploadVars, rpcAtQuit, passesAfterQuit, pubsAfterQuit,
                  rpc, dpc >>

StripNext ==
  \/ DrawArrays
  \/ DrawVertex
  \/ DrawDone

\* any build, at a draw of the cube
StripInit ==
  /\ variant \in Variants
  /\ frameCap = MaxFrames
  /\ pollCap = 0
  /\ cliOverride = "none"
  /\ mayThrow = FALSE
  /\ eventCap = MaxEvents
  /\ dpc = "draw"
  /\ ProgramInit
  /\ NoParse
  /\ NoShade

StripSpec == StripInit /\ [][StripNext]_vars

\* the faces of the cube with corners (+-1, +-1, +-1): an axis and a side
Faces == (1..3) \X {-1, 1}

\* the triangle lies in the face f
InFace(tri, f) == \A p \in tri : p[f[1]] = f[2]

FacesOf(tri) == { f \in Faces : InFace(tri, f) }

\* the triangles assembled so far that lie in the face f
TrianglesIn(f, n) == { k \in Assembled(n) : InFace(Triangle(k), f) }

\* two corners of one face that are the ends of a diagonal of it
Diagonal(ps) ==
  /\ Cardinality(ps) = 2
  /\ \E p \in ps : \E q \in ps :
       Cardinality({ c \in 1..3 : p[c] # q[c] }) = 2

\* two triangles that fill the face: all four corners, split along a diagonal
Covers(f, ks) ==
  /\ Cardinality(ks) = 2
  /\ \E j \in ks : \E k \in ks :
       /\ j # k
       /\ Cardinality(Triangle(j) \cup Triangle(k)) = 4
       /\ Diagonal(Triangle(j) \cap Triangle(k))

\* C32: the strip has 14 vertices, each a corner (+-1, +-1, +-1); every triangle
\* a draw assembles lies in exactly one face of the cube, and once the draw has
\* read the whole strip there are 12 triangles and every face is filled by
\* exactly two of them.
C32_StripCoversCube ==
  /\ StripCount = 14
  /\ \A k \in 1..nVerts : \A c \in 1..3 : Vertex(k)[c] \in {-1, 1}
  /\ \A k \in Assembled(nVerts) : Cardinality(FacesOf(Triangle(k))) = 1
  /\ (drawTarget # "none" /\ nVerts = StripCount) =>
       /\ Cardinality(Assembled(nVerts)) = 12
       /\ \A f \in Faces : Covers(f, TrianglesIn(f, nVerts))

\* a draw to the second eye has read the whole strip
C32_Witness == drawTarget = "eye1" /\ nVerts = StripCount

\* ---------------------------------------------------------------------------
\* GLFramebuffer (src/openvr_display.cpp): the object, its record of attached
\* textures and the GL calls its destructor makes

\* attachments[attachment] = texture on a std::unordered_map
MapStore(m, a, t) == { e \in m : e[1] # a } \cup { << a, t >> }

\* attachments.erase(attachment)
MapErase(m, a) == { e \in m : e[1] # a }

glFrame ==
  << fixedVars, vrVars, stripVars, fbSize, histVars, auxVars, relayVars,
     renderVars, fbMappers, clock, sceneVars, inputVars, ev, quit,
     cameraVars, uploadVars, rpcAtQuit, passesAfterQuit, pubsAfterQuit,
     rpc, dpc >>

\* GLFramebuffer::GLFramebuffer(): glGenFramebuffers(1, &fb)
GlConstruct ==
  /\ dpc = "gl_object"
  /\ glFb = "none"
  /\ glFb' = "live"
  /\ UNCHANGED << glFrame, attachments, glCalls, fbDeletes, texDeletes >>

\* GLFramebuffer::attach2d(attachment, texture): the texture is recorded before
\* the status is checked, so the record is made whether or not the call throws
Attach2d(a, t) ==
  /\ dpc = "gl_object"
  /\ glFb = "live"
  /\ Len(glCalls) < MaxGlCalls
  /\ attachments' = MapStore(attachments, a, t)
  /\ \E status \in {"complete", "incomplete"} :
       glCalls' = Append(glCalls, << "attach2d", a, t,
                                     IF status = "complete" THEN "returns" ELSE "throws" >>)
  /\ UNCHANGED << glFrame, glFb, fbDeletes, texDeletes >>

\* faulty variant: detach2d forgets to erase the record
Detach2dKeepsRecord(a) ==
  /\ dpc = "gl_object"
  /\ glFb = "live"
  /\ Len(glCalls) < MaxGlCalls
  /\ glCalls' = Append(glCalls, << "detach2d", a >>)
  /\ UNCHANGED << glFrame, glFb, attachments, fbDeletes, texDeletes >>

\* GLFramebuffer::detach2d(attachment)
Detach2d(a) ==
  /\ dpc = "gl_object"
  /\ glFb = "live"
  /\ Len(glCalls) < MaxGlCalls
  /\ attachments' = MapErase(attachments, a)
  /\ glCalls' = Append(glCalls, << "detach2d", a >>)
  /\ UNCHANGED << glFrame, glFb, fbDeletes, texDeletes >>

\* GLFramebuffer::~GLFramebuffer(): glDeleteFramebuffers(1, &fb), then one
\* glDeleteTextures(1, &t.second) for every entry of attachments; the map is
\* destroyed with the object
GlDestroy ==
  /\ dpc = "gl_object"
  /\ glFb = "live"
  /\ glFb' = "destroyed"
  /\ fbDeletes' = fbDeletes + 1
  /\ texDeletes' = [t \in Textures |->
                      texDeletes[t] + Cardinality({ e \in attachments : e[2] = t })]
  /\ attachments' = {}
  /\ UNCHANGED << glFrame, glCalls >>

GlNext ==
  \/ GlConstruct
  \/ \E a \in AttachPoints : \E t \in Textures : Attach2d(a, t)
  \/ \E a \in AttachPoints : Detach2d(a)
  \/ GlDestroy

\* a build with the headset (src/main.cpp with OPENVR_ENABLED, part_001), at
\* the life of one GLFramebuffer
GlInit ==
  /\ variant \in {"main", "part1"}
  /\ frameCap = MaxFrames
  /\ pollCap = 0
  /\ cliOverride = "none"
  /\ mayThrow = FALSE
  /\ eventCap = MaxEvents
  /\ dpc = "gl_object"
  /\ ProgramInit
  /\ NoParse
  /\ NoShade

GlSpec == GlInit /\ [][GlNext]_vars

\* the calls made so far that name the attachment point a
CallsAt(a) == { i \in 1..Len(glCalls) : glCalls[i][2] = a }

LastCallAt(a) == CHOOSE i \in CallsAt(a) : \A j \in CallsAt(a) : j <= i

\* the attachment points whose last call is an attach2d of the texture t
PointsHolding(t) ==
  { a \in AttachPoints :
      /\ CallsAt(a) # {}
      /\ glCalls[LastCallAt(a)][1] = "attach2d"
      /\ glCalls[LastCallAt(a)][3] = t }

\* the textures some attach2d call has named
EverAttached ==
  { t \in Textures : \E i \in 1..Len(glCalls) :
      glCalls[i][1] = "attach2d" /\ glCalls[i][3] = t }

\* C33 (as stated): once the object is destroyed, the framebuffer object and
\* every texture some attach2d call named have been deleted exactly once each,
\* whatever attach2d and detach2d calls were made.
C33_EveryAttachedTextureDeletedOnce ==
  glFb = "destroyed" =>
    /\ fbDeletes = 1
    /\ \A t \in EverAttached : texDeletes[t] = 1

\* C33 (amended): nothing is deleted before the destructor; the destructor
\* deletes the framebuffer object once and makes one glDeleteTextures call for
\* every attachment point whose last call was an attach2d, naming the texture
\* of that call.  A texture that was detached, or replaced at its attachment
\* point, is not deleted; a texture left at two points is named by two calls.
C33_DeletesWhatIsStillAttached ==
  /\ glFb # "destroyed" => fbDeletes = 0 /\ \A t \in Textures : texDeletes[t] = 0
  /\ glFb = "destroyed" =>
       /\ fbDeletes = 1
       /\ \A t \in Textures : texDeletes[t] = Cardinality(PointsHolding(t))

\* destroyed after two textures were attached and the second one detached:
\* the first was deleted, the second was not
C33_Witness ==
  /\ glFb = "destroyed"
  /\ glCalls = << << "attach2d", "COLOR0", 1, "returns" >>,
                  << "attach2d", "DEPTH", 2, "returns" >>,
                  << "detach2d", "DEPTH" >> >>
  /\ texDeletes[1] = 1
  /\ texDeletes[2] = 0

\* ---------------------------------------------------------------------------
\* The presentation of a build with the headset (src/main.cpp with
\* OPENVR_ENABLED, part_001), statement by statement.  The display thread is at
\* "present" when it is about to call vr_display.begin_frame().

vrFrame ==
  << fixedVars, stripVars, glVars, fbSize, histVars, auxVars, relayVars, renderVars,
     fbMappers, clock, sceneVars, inputVars, ev, quit, cameraVars, uploadVars,
     rpcAtQuit >>

\* for (size_t i = 0; i < 2; ++i)
Eyes == 2

\* vr_display.begin_frame();  for (size_t i = 0; ...
BeginFrame ==
  /\ dpc = "present"
  /\ vrCalls' = << << "begin_frame" >> >>
  /\ eyeIdx' = 0
  /\ dpc' = IF eyeIdx' < Eyes THEN "begin_eye" ELSE "submit"
  /\ UNCHANGED vrFrame

\* vr_display.begin_eye(i, view, proj);
BeginEye ==
  /\ dpc = "begin_eye"
  /\ vrCalls' = Append(vrCalls, << "begin_eye", eyeIdx >>)
  /\ dpc' = "draw_eye"
  /\ UNCHANGED << vrFrame, eyeIdx >>

\* faulty variant: the eye loop is left after the first eye
DrawEyeOnce ==
  /\ dpc = "draw_eye"
  /\ vrCalls' = Append(vrCalls, << "draw", eyeIdx >>)
  /\ eyeIdx' = eyeIdx + 1
  /\ dpc' = "submit"
  /\ UNCHANGED vrFrame

\* glClear(...); ... glDrawArrays(GL_TRIANGLE_STRIP, 0, CUBE_STRIP.size() / 3);
\* ++i; i < 2
DrawEye ==
  /\ dpc = "draw_eye"
  /\ vrCalls' = Append(vrCalls, << "draw", eyeIdx >>)
  /\ eyeIdx' = eyeIdx + 1
  /\ dpc' = IF eyeIdx' < Eyes THEN "begin_eye" ELSE "submit"
  /\ UNCHANGED vrFrame

\* vr_display.submit();
Submit ==
  /\ dpc = "submit"
  /\ vrCalls' = Append(vrCalls, << "submit" >>)
  /\ dpc' = "mirror"
  /\ UNCHANGED << vrFrame, eyeIdx >>

\* glBindFramebuffer(GL_FRAMEBUFFER, 0); glViewport; glClear; glDrawArrays(...);
MirrorDraw ==
  /\ dpc = "mirror"
  /\ vrCalls' = Append(vrCalls, << "mirror" >>)
  /\ dpc' = "swap"
  /\ UNCHANGED << vrFrame, eyeIdx >>

\* SDL_GL_SwapWindow(window);
SwapWindow ==
  /\ dpc = "swap"
  /\ vrCalls' = Append(vrCalls, << "swap" >>)
  /\ dpc' = "loop"
  /\ UNCHANGED << vrFrame, eyeIdx >>

VrPresentNext ==
  \/ BeginFrame
  \/ BeginEye
  \/ DrawEye
  \/ Submit
  \/ MirrorDraw
  \/ SwapWindow

VrDisplayNext == SetupNext \/ LoopBodyNext \/ VrPresentNext \/ DisplayKey \/ ShutdownNext

VrNext == RenderNext \/ VrDisplayNext \/ PostEvent

\* a build with the headset
VrInit ==
  /\ variant \in {"main", "part1"}
  /\ frameCap = MaxFrames
  /\ pollCap = 0
  /\ cliOverride = "none"
  /\ mayThrow = FALSE
  /\ eventCap = MaxEvents
  /\ dpc = "args"
  /\ ProgramInit
  /\ NoParse
  /\ NoShade

VrSpec == VrInit /\ [][VrNext]_vars

\* the calls of one presentation, in the order the claim gives
PresentationOrder ==
  << << "begin_frame" >>,
     << "begin_eye", 0 >>, << "draw", 0 >>,
     << "begin_eye", 1 >>, << "draw", 1 >>,
     << "submit" >>, << "mirror" >>, << "swap" >> >>

\* the statements of the presentation and the calls made when each is reached
PresentationPcs == {"begin_eye", "draw_eye", "submit", "mirror", "swap"}

CallsBefore(pc, i) ==
  CASE pc = "begin_eye" -> 1 + 2 * i
    [] pc = "draw_eye"  -> 2 + 2 * i
    [] pc = "submit"    -> 5
    [] pc = "mirror"    -> 6
    [] pc = "swap"      -> 7

\* the presentation so far is the first calls of PresentationOrder, as far as
\* the statement reached says; outside it, it is empty (no iteration has
\* presented) or complete
OrderedSoFar ==
  /\ dpc \in PresentationPcs =>
       /\ eyeIdx \in 0..Eyes
       /\ vrCalls = SubSeq(PresentationOrder, 1, CallsBefore(dpc, eyeIdx))
  /\ dpc \notin PresentationPcs =>
       vrCalls \in { << >>, PresentationOrder }

\* the upload of the iteration, when there is one, is over when begin_frame()
\* is reached and while the presentation runs
UploadOver ==
  dpc \in PresentationPcs \cup {"present"} =>
    /\ outstanding = 0
    /\ dIdx = 1
    /\ pixel_lock # "display"
    /\ sawNew => lastUploaded > 0 /\ \A i \in Pixels : tex[i] = lastUploaded

\* C31: in a build with the headset, the calls an iteration's presentation has
\* made are always the first calls of: begin_frame, begin_eye(0), draw,
\* begin_eye(1), draw, submit, mirror draw, swap (so submit() comes after both
\* eyes were drawn, once); the upload of the iteration is over before
\* begin_frame(), and no step of the presentation writes the texture.
C31_PresentationOrder ==
  /\ [](OrderedSoFar /\ UploadOver)
  /\ [][(dpc \in PresentationPcs \cup {"present"}) => (tex' = tex)]_vars

\* an iteration that uploaded a frame has drawn both eyes, submitted them and
\* drawn the mirror
C31_Witness ==
  /\ dpc = "swap"
  /\ sawNew
  /\ vrCalls = SubSeq(PresentationOrder, 1, 7)

====
